---- MODULE Spec2Model ----
(***************************************************************************)
(* Model of the context-recall plugin: the UserPromptSubmit hook           *)
(* (hooks/save_context_snapshot.py) that rebuilds the conversation index   *)
(* from the transcript and writes it to ~/.claude/context-recall/, and the *)
(* query scripts that read that index.                                     *)
(*                                                                         *)
(* Texts are sequences of one-character strings.  A transcript is a        *)
(* sequence of lines; a line is a record describing the JSON value the     *)
(* line holds.  A file of the storage directory is a record with a state   *)
(* ("absent", "writing": opened for writing and not yet closed,            *)
(* "complete") and the document it holds when complete.                    *)
(***************************************************************************)
EXTENDS Integers, Sequences, FiniteSets, TLC

\* ---------------------------------------------------------------- bounds
MaxLines == 4       \* lines ever appended to the transcripts, all sessions
MaxRuns == 2        \* hook invocations started
MaxMsgs == 4
MaxParseLines == 3   \* lines of a transcript given to a parser on its own
MaxLastN == 12       \* the largest N of a lastN argument
MaxTotal == 5        \* the largest total_exchanges given to parse_last_n
MaxTimed == 4        \* exchanges in a list searched by time
MaxWindow == 3       \* the largest window given to find_exchanges_by_time
MaxSearched == 3     \* exchanges of a session searched by keyword
MaxFormatted == 5    \* exchanges given to format_exchanges
MaxEntries == 12     \* exchanges of the session a query is run on
MaxText == 5         \* characters of a short text that is truncated (and the short caps)
MaxRecent == 6       \* exchanges of the session whose recent ones are kept
MaxPaged == 41       \* exchanges of the index that is paged        \* messages of a message list given to the exchange builder

\* ------------------------------------------------------ program constants
PREVIEW_LENGTH == 80
MAX_RECENT_EXCHANGES == 5
MAX_CHARS_PER_MESSAGE == 1000
MAX_TOTAL_CHARS == 8000
AROUND_TIME_WINDOW == 5
\* the most matches a search of fetch_exchanges.py keeps
SEARCH_LIMIT == 10
\* the most matches a search of show_index.py lists
SEARCH_LISTED == 20
\* exchanges per page of show_index.py
PAGE_SIZE == 20

\* ------------------------------------------------------------------ texts
Min(a, b) == IF a <= b THEN a ELSE b
Max(a, b) == IF a >= b THEN a ELSE b

Take(s, n) == SubSeq(s, 1, Min(Max(n, 0), Len(s)))

IsSpace(c) == c \in {" ", "\n", "\t"}

RECURSIVE SplitJoin(_, _, _)
\* ' '.join(text.split()): i scans text, acc is the output so far, a single
\* space is emitted between two words and none at either end.
SplitJoin(text, i, acc) ==
    IF i > Len(text) THEN acc
    ELSE IF IsSpace(text[i]) THEN SplitJoin(text, i + 1, acc)
    ELSE IF i > 1 /\ IsSpace(text[i - 1]) /\ acc # <<>>
         THEN SplitJoin(text, i + 1, acc \o <<" ", text[i]>>)
         ELSE SplitJoin(text, i + 1, Append(acc, text[i]))

make_preview(text, max_length) ==
    LET t == SplitJoin(text, 1, <<>>)
    IN IF Len(t) <= max_length THEN t
       ELSE Take(t, max_length - 3) \o <<".", ".", ".">>

TruncationMarker ==
    <<"\n", "\n", "[", ".", ".", ".", "t", "r", "u", "n", "c", "a", "t", "e", "d",
      ".", ".", ".", "]">>

\* a truncation that makes room for the marker within max_chars
truncate_text_within_cap(text, max_chars) ==
    IF Len(text) <= max_chars THEN text
    ELSE Take(text, max_chars - Len(TruncationMarker)) \o TruncationMarker

truncate_text(text, max_chars) ==
    IF Len(text) <= max_chars THEN text
    ELSE Take(text, max_chars) \o TruncationMarker

\* ------------------------------------------------------------- timestamps
\* A timestamp string: kind "iso" (parseable, day and minute of day),
\* "empty" (''), "clock" (datetime.now() read by the hook, minute = clock).
TS(kind, day, minute) == [kind |-> kind, day |-> day, minute |-> minute]
NoTS == TS("empty", 0, 0)

\* ------------------------------------------------------ transcript lines
\* form: "blank" (empty after strip), "invalid" (json.loads raises
\* JSONDecodeError), "scalar" (valid JSON that is not an object), "object".
\* For an object: type and role are the top-level fields ('' when absent),
\* msg is "absent", "nondict" or "dict"; mrole and content belong to the
\* message object.  content is [kind, text, items]: kind "str" (a plain
\* string, in text), "items" (a list, in items) or "bad" (any other value);
\* an item is [kind: "text" | "str" | "other", text].
Line(form, type, role, msg, mrole, content, ts) ==
    [form |-> form, type |-> type, role |-> role, msg |-> msg,
     mrole |-> mrole, content |-> content, timestamp |-> ts]

StrContent(text) == [kind |-> "str", text |-> text, items |-> <<>>]
ItemsContent(items) == [kind |-> "items", text |-> <<>>, items |-> items]
BadContent == [kind |-> "bad", text |-> <<>>, items |-> <<>>]
TextItem(text) == [kind |-> "text", text |-> text]
StrItem(text) == [kind |-> "str", text |-> text]
OtherItem == [kind |-> "other", text |-> <<>>]

BlankLine == Line("blank", "", "", "absent", "", ItemsContent(<<>>), NoTS)
InvalidLine == Line("invalid", "", "", "absent", "", ItemsContent(<<>>), NoTS)
ScalarLine == Line("scalar", "", "", "absent", "", ItemsContent(<<>>), NoTS)

Roles == {"user", "assistant"}

RECURSIVE JoinParts(_, _)
\* '\n'.join(text_parts) over the items that contribute, from item i on
JoinParts(items, i) ==
    IF i > Len(items) THEN <<>>
    ELSE LET rest == [k \in 1..(Len(items) - i) |-> items[k + i]]
             more == \E k \in 1..Len(rest) : rest[k].kind \in {"text", "str"}
         IN IF items[i].kind \in {"text", "str"}
            THEN items[i].text \o (IF more THEN <<"\n">> ELSE <<>>) \o JoinParts(items, i + 1)
            ELSE JoinParts(items, i + 1)

\* extract_text_content on a message object whose content is `content`;
\* a content that is neither a string nor iterable raises (ok = FALSE)
extract_text_content(content) ==
    CASE content.kind = "str" -> [ok |-> TRUE, text |-> content.text]
      [] content.kind = "items" -> [ok |-> TRUE, text |-> JoinParts(content.items, 1)]
      [] OTHER -> [ok |-> FALSE, text |-> <<>>]

\* One iteration of the parser's loop over the file's lines.
\* res: "skip" (continue), "abort" (an exception other than JSONDecodeError
\* leaves the loop through the outer except), "msg" (a message is appended).
PR(res, role, text, ts) == [res |-> res, role |-> role, text |-> text, timestamp |-> ts]
Skip == PR("skip", "", <<>>, NoTS)
Abort == PR("abort", "", <<>>, NoTS)

ParseLine(l) ==
    IF l.form = "blank" THEN Skip
    ELSE IF l.form = "invalid" THEN Skip
    ELSE IF l.form = "scalar" THEN Abort
    ELSE LET role0 == IF l.type # "" THEN l.type ELSE l.role
             needsNested == role0 \notin Roles
             role == IF needsNested
                     THEN (IF l.msg = "dict" THEN l.mrole ELSE "")
                     ELSE role0
             ext == IF l.msg = "dict" THEN extract_text_content(l.content)
                    ELSE [ok |-> TRUE, text |-> <<>>]
         IN IF needsNested /\ l.msg = "nondict" THEN Abort
            ELSE IF role \notin Roles THEN Skip
            ELSE IF l.msg = "nondict" THEN Abort
            ELSE IF ~ext.ok THEN Abort
            ELSE IF ext.text = <<>> THEN Skip
            ELSE PR("msg", role, ext.text, l.timestamp)

RECURSIVE ParseFrom(_, _, _)
ParseFrom(lines, i, messages) ==
    IF i > Len(lines) THEN messages
    ELSE LET r == ParseLine(lines[i])
         IN IF r.res = "abort" THEN messages
            ELSE IF r.res = "skip" THEN ParseFrom(lines, i + 1, messages)
            ELSE ParseFrom(lines, i + 1,
                           Append(messages, [role |-> r.role, text |-> r.text,
                                             timestamp |-> r.timestamp]))

\* parse_transcript_with_timestamps: exists is os.path.exists(path) for a
\* non-empty path; lines are the lines the file holds when it is read
parse_transcript_with_timestamps(exists, lines) ==
    IF ~exists THEN <<>> ELSE ParseFrom(lines, 1, <<>>)

\* ------------------------------------------------------- exchange builder
RECURSIVE PairFromKeepsTrailing(_, _, _, _)
\* a pairing loop that also emits an exchange, with an empty answer, for a
\* user message that ends the list
PairFromKeepsTrailing(messages, i, exchange_idx, all_exchanges) ==
    IF i > Len(messages) THEN all_exchanges
    ELSE IF messages[i].role = "user"
         THEN IF i + 1 <= Len(messages) /\ messages[i + 1].role = "assistant"
              THEN PairFromKeepsTrailing(messages, i + 2, exchange_idx + 1,
                            Append(all_exchanges,
                                   [idx |-> exchange_idx,
                                    user_text |-> messages[i].text,
                                    assistant_text |-> messages[i + 1].text,
                                    timestamp |-> messages[i].timestamp]))
              ELSE IF i = Len(messages)
                   THEN Append(all_exchanges,
                               [idx |-> exchange_idx,
                                user_text |-> messages[i].text,
                                assistant_text |-> <<>>,
                                timestamp |-> messages[i].timestamp])
                   ELSE PairFromKeepsTrailing(messages, i + 1, exchange_idx, all_exchanges)
         ELSE PairFromKeepsTrailing(messages, i + 1, exchange_idx, all_exchanges)

RECURSIVE PairFrom(_, _, _, _)
\* the first pass of build_exchange_index (the while loop)
PairFrom(messages, i, exchange_idx, all_exchanges) ==
    IF i > Len(messages) THEN all_exchanges
    ELSE IF messages[i].role = "user"
         THEN IF i + 1 <= Len(messages) /\ messages[i + 1].role = "assistant"
              THEN PairFrom(messages, i + 2, exchange_idx + 1,
                            Append(all_exchanges,
                                   [idx |-> exchange_idx,
                                    user_text |-> messages[i].text,
                                    assistant_text |-> messages[i + 1].text,
                                    timestamp |-> messages[i].timestamp]))
              ELSE PairFrom(messages, i + 1, exchange_idx, all_exchanges)
         ELSE PairFrom(messages, i + 1, exchange_idx, all_exchanges)

\* a pairing loop whose counter starts at 0
all_exchanges_from_zero(messages) == PairFrom(messages, 1, 0, <<>>)

all_exchanges_of(messages) == PairFrom(messages, 1, 1, <<>>)

\* index entries numbered from the newest exchange back to the oldest
full_index_newest_first(all_exchanges) ==
    [k \in 1..Len(all_exchanges) |->
        [idx |-> Len(all_exchanges) - k + 1,
         preview |-> make_preview(all_exchanges[k].user_text, PREVIEW_LENGTH),
         timestamp |-> all_exchanges[k].timestamp]]

\* the index entries built from the pairs
full_index_of(all_exchanges) ==
    [k \in 1..Len(all_exchanges) |->
        [idx |-> all_exchanges[k].idx,
         preview |-> make_preview(all_exchanges[k].user_text, PREVIEW_LENGTH),
         timestamp |-> all_exchanges[k].timestamp]]

RECURSIVE RecentFromSkipsLarge(_, _, _, _)
\* a loop that passes over an exchange that does not fit and goes on
RecentFromSkipsLarge(all_exchanges, k, lo, st) ==
    IF k < lo THEN st.recent
    ELSE LET user_text == truncate_text(all_exchanges[k].user_text, MAX_CHARS_PER_MESSAGE)
             assistant_text == truncate_text(all_exchanges[k].assistant_text, MAX_CHARS_PER_MESSAGE)
             exchange_chars == Len(user_text) + Len(assistant_text)
         IN IF st.total_chars + exchange_chars > MAX_TOTAL_CHARS
            THEN RecentFromSkipsLarge(all_exchanges, k - 1, lo, st)
            ELSE RecentFromSkipsLarge(all_exchanges, k - 1, lo,
                    [recent |-> <<[idx |-> all_exchanges[k].idx, user |-> user_text,
                                   assistant |-> assistant_text,
                                   timestamp |-> all_exchanges[k].timestamp]>> \o st.recent,
                     total_chars |-> st.total_chars + exchange_chars])

RECURSIVE RecentFrom(_, _, _, _)
\* the loop over reversed(all_exchanges[-MAX_RECENT_EXCHANGES:]): k is the
\* position examined, lo the first position of the slice
RecentFrom(all_exchanges, k, lo, st) ==
    IF k < lo THEN st.recent
    ELSE LET user_text == truncate_text(all_exchanges[k].user_text, MAX_CHARS_PER_MESSAGE)
             assistant_text == truncate_text(all_exchanges[k].assistant_text, MAX_CHARS_PER_MESSAGE)
             exchange_chars == Len(user_text) + Len(assistant_text)
         IN IF st.total_chars + exchange_chars > MAX_TOTAL_CHARS THEN st.recent
            ELSE RecentFrom(all_exchanges, k - 1, lo,
                    [recent |-> <<[idx |-> all_exchanges[k].idx, user |-> user_text,
                                   assistant |-> assistant_text,
                                   timestamp |-> all_exchanges[k].timestamp]>> \o st.recent,
                     total_chars |-> st.total_chars + exchange_chars])

recent_exchanges_of(all_exchanges) ==
    RecentFrom(all_exchanges, Len(all_exchanges),
               Max(1, Len(all_exchanges) - MAX_RECENT_EXCHANGES + 1),
               [recent |-> <<>>, total_chars |-> 0])

build_exchange_index(messages) ==
    LET all == all_exchanges_of(messages)
    IN [full_index |-> full_index_of(all), recent_exchanges |-> recent_exchanges_of(all)]

RECURSIVE BuildFromSkipsNext(_, _, _, _)
\* a builder that steps over the message after an unanswered user message
BuildFromSkipsNext(messages, i, exchange_idx, exchanges) ==
    IF i > Len(messages) THEN exchanges
    ELSE IF messages[i].role = "user"
         THEN IF i + 1 <= Len(messages) /\ messages[i + 1].role = "assistant"
              THEN BuildFromSkipsNext(messages, i + 2, exchange_idx + 1,
                            Append(exchanges,
                                   [idx |-> exchange_idx,
                                    user_text |-> messages[i].text,
                                    assistant_text |-> messages[i + 1].text,
                                    timestamp |-> messages[i].timestamp]))
              ELSE BuildFromSkipsNext(messages, i + 2, exchange_idx, exchanges)
         ELSE BuildFromSkipsNext(messages, i + 1, exchange_idx, exchanges)

RECURSIVE BuildFrom(_, _, _, _)
\* the while loop of utils.build_exchanges_from_messages
BuildFrom(messages, i, exchange_idx, exchanges) ==
    IF i > Len(messages) THEN exchanges
    ELSE IF messages[i].role = "user"
         THEN IF i + 1 <= Len(messages) /\ messages[i + 1].role = "assistant"
              THEN BuildFrom(messages, i + 2, exchange_idx + 1,
                            Append(exchanges,
                                   [idx |-> exchange_idx,
                                    user_text |-> messages[i].text,
                                    assistant_text |-> messages[i + 1].text,
                                    timestamp |-> messages[i].timestamp]))
              ELSE BuildFrom(messages, i + 1, exchange_idx, exchanges)
         ELSE BuildFrom(messages, i + 1, exchange_idx, exchanges)

build_exchanges_from_messages(messages) == BuildFrom(messages, 1, 1, <<>>)

\* ------------------------------------------------------------ the system
\* an index document whose entries carry the time of the run
IndexDataRestamped(session_id, transcript_path, full_index, now) ==
    [session_id |-> session_id,
     session_start |-> now,
     updated_at |-> now,
     total_exchanges |-> Len(full_index),
     transcript_path |-> transcript_path,
     exchanges |-> [k \in 1..Len(full_index) |->
                      [full_index[k] EXCEPT !.timestamp = now]]]

\* index_data of save_index_and_snapshot
IndexData(session_id, transcript_path, full_index, now) ==
    [session_id |-> session_id,
     session_start |-> IF full_index # <<>> THEN full_index[1].timestamp ELSE now,
     updated_at |-> now,
     total_exchanges |-> Len(full_index),
     transcript_path |-> transcript_path,
     exchanges |-> full_index]

\* snapshot_data of save_index_and_snapshot
SnapshotData(session_id, full_index, recent_exchanges, now) ==
    [session_id |-> session_id,
     timestamp |-> now,
     message_count |-> Len(full_index) * 2,
     exchanges |-> [k \in 1..Len(recent_exchanges) |->
                      [user |-> recent_exchanges[k].user,
                       assistant |-> recent_exchanges[k].assistant]]]

Sessions == {"s1", "s2"}
HookIds == {1, 2}

\* the transcript file of a session, as the host passes it to the hook
PathOf(s) == IF s = "s1" THEN "/t/s1.jsonl" ELSE "/t/s2.jsonl"
SessionOfPath(p) == IF p = "/t/s1.jsonl" THEN "s1" ELSE "s2"

\* the files of ~/.claude/context-recall/
SessionFile(s) == IF s = "s1" THEN "s1_index.json" ELSE "s2_index.json"
IndexFiles == {"index.json"} \cup {SessionFile(s) : s \in Sessions}
FileNames == IndexFiles \cup {"current.json"}

\* the records the host writes to a transcript: the role is the top-level
\* type, the top-level role, or the role of the message object
UserLine(text, ts) ==
    Line("object", "user", "", "dict", "", ItemsContent(<<TextItem(text)>>), ts)
RoleUserLine(text, ts) ==
    Line("object", "", "user", "dict", "", StrContent(text), ts)
AssistantLine(text, ts) ==
    Line("object", "message", "", "dict", "assistant", ItemsContent(<<TextItem(text)>>), ts)

\* the lines appended to the transcript of the running session (a line
\* that is not valid JSON is what a partly written record is, see FileLines)
HookLines ==
    {UserLine(<<"q", "1">>, TS("iso", 1, 540)),
     RoleUserLine(<<"q", " ", " ", "2">>, TS("iso", 2, 600)),
     AssistantLine(<<"A", "n">>, TS("iso", 1, 541))}

\* s2 is an earlier session: its transcript holds two exchanges and an
\* unanswered prompt, and is no longer written; its hook ran before s1 began
OldTranscript ==
    <<UserLine(<<"o", "1">>, TS("iso", 0, 100)),
      AssistantLine(<<"z", "1">>, TS("iso", 0, 101)),
      UserLine(<<"o", "2">>, TS("iso", 0, 110)),
      AssistantLine(<<"z", "2">>, TS("iso", 0, 111)),
      UserLine(<<"o", "3">>, TS("iso", 0, 120))>>
Growing == {"s1"}

NoLine == Line("none", "", "", "absent", "", ItemsContent(<<>>), NoTS)
Prompts == {"/recall", "hello"}

\* a file's data when it holds no complete JSON document
NoData == [none |-> TRUE]
\* st: "absent", "corrupt" (bytes that do not parse, left by an interrupted
\* write), "writing" (opened with 'w' and not yet closed), "complete"
File(st, data) == [st |-> st, data |-> data]
AbsentFile == File("absent", NoData)
CorruptFile == File("corrupt", NoData)

\* the value of prevRead for a session no hook run has written a file for
NotRun == <<NoLine>>

VARIABLES
    transcript,   \* [Sessions -> sequence of complete lines]
    pending,      \* [Sessions -> the first bytes of a record are written, the
                  \* rest and the newline are not]
    files,        \* [FileNames -> File]
    dir,          \* the directory ~/.claude/context-recall exists
    perm,         \* "rw" or "ro": whether the storage tree can be written
    clock,        \* the wall clock, read by datetime.now()
    hook,         \* [HookIds -> the state of a hook process]
    reader,       \* what the query process found when it opened index.json
    prevRead,     \* history: [Sessions -> the lines read from the transcript by
                  \* the latest finished run of the session that wrote a file]
    input,        \* the argument of the function under test (function specs)
    output        \* its result

hookVars == <<transcript, pending, files, dir, perm, clock, hook, reader, prevRead>>
vars == <<transcript, pending, files, dir, perm, clock, hook, reader, prevRead,
          input, output>>

IdleHook ==
    [pc |-> "idle", session_id |-> "", transcript_path |-> "", user_prompt |-> "",
     lines |-> <<>>, index_data |-> NoData, snapshot_data |-> NoData, n |-> 0,
     out |-> "none", wrote |-> 0, logged |-> FALSE]

\* the storage directory before the first hook run of session s1: empty,
\* or holding what the hook of session s2 wrote at time 0, index.json whole
\* or cut short by an interrupted write
OldFiles(indexState) ==
    LET now == TS("clock", 0, 0)
        built == build_exchange_index(parse_transcript_with_timestamps(TRUE, OldTranscript))
        index_data == IndexData("s2", PathOf("s2"), built.full_index, now)
        snapshot_data == SnapshotData("s2", built.full_index, built.recent_exchanges, now)
    IN [f \in FileNames |->
          CASE f = "index.json" ->
                   IF indexState = "corrupt" THEN CorruptFile ELSE File("complete", index_data)
            [] f = SessionFile("s2") -> File("complete", index_data)
            [] f = "current.json" -> File("complete", snapshot_data)
            [] OTHER -> AbsentFile]

InitHook ==
    /\ transcript = [s \in Sessions |-> IF s \in Growing THEN <<>> ELSE OldTranscript]
    /\ pending = [s \in Sessions |-> FALSE]
    /\ files \in {[f \in FileNames |-> AbsentFile], OldFiles("complete"), OldFiles("corrupt")}
    /\ dir \in BOOLEAN
    /\ perm \in {"rw", "ro"}
    /\ (files["index.json"].st # "absent" => dir)
    /\ clock = 0
    /\ hook = [h \in HookIds |-> IdleHook]
    /\ reader = "none"
    /\ prevRead = [s \in Sessions |->
                      IF files[SessionFile(s)].st = "complete" THEN transcript[s] ELSE NotRun]

NoInput == <<>>
NoOutput == [computed |-> FALSE]

Init == InitHook /\ input = NoInput /\ output = NoOutput

\* ------------------------------------------------------------ environment
LinesWritten(s) == Len(transcript[s]) + (IF pending[s] THEN 1 ELSE 0)

\* the host appends a whole line to a session's transcript
AppendLine(s, l) ==
    /\ ~pending[s]
    /\ LinesWritten(s) < MaxLines
    /\ transcript' = [transcript EXCEPT ![s] = Append(@, l)]
    /\ UNCHANGED <<pending, files, dir, perm, clock, hook, reader, prevRead,
                   input, output>>

\* the host has written only the first bytes of a record
BeginAppend(s) ==
    /\ ~pending[s]
    /\ LinesWritten(s) < MaxLines
    /\ pending' = [pending EXCEPT ![s] = TRUE]
    /\ UNCHANGED <<transcript, files, dir, perm, clock, hook, reader, prevRead,
                   input, output>>

\* the rest of the record l and its newline arrive
FinishAppend(s, l) ==
    /\ pending[s]
    /\ l.form = "object"
    /\ transcript' = [transcript EXCEPT ![s] = Append(@, l)]
    /\ pending' = [pending EXCEPT ![s] = FALSE]
    /\ UNCHANGED <<files, dir, perm, clock, hook, reader, prevRead, input, output>>

\* what a reader of the transcript file finds: the complete lines, then the
\* partly written record, which is not valid JSON
FileLines(s) ==
    IF pending[s] THEN Append(transcript[s], InvalidLine) ELSE transcript[s]

\* ------------------------------------------------------------- the hook
\* snapshot_dir.mkdir(parents=True, exist_ok=True): succeeds when the
\* directory exists or can be created, raises otherwise
MkdirOk == dir \/ perm = "rw"

\* main up to the first file write: read the input, parse the transcript,
\* build the index, create the storage directory, read the clock
HookStart(h, sid) ==
    /\ hook[h].pc = "idle"
    /\ clock < MaxRuns
    /\ clock' = clock + 1
    /\ LET path == PathOf(sid)
           lines == FileLines(SessionOfPath(path))
           messages == parse_transcript_with_timestamps(TRUE, lines)
           built == build_exchange_index(messages)
           now == TS("clock", 0, clock + 1)
       IN IF MkdirOk
          THEN /\ dir' = TRUE
               /\ hook' = [hook EXCEPT ![h] =
                    [pc |-> "save_index", session_id |-> sid, transcript_path |-> path,
                     user_prompt |-> "", lines |-> lines,
                     index_data |-> IndexData(sid, path, built.full_index, now),
                     snapshot_data |-> SnapshotData(sid, built.full_index,
                                                    built.recent_exchanges, now),
                     n |-> Len(built.full_index),
                     out |-> "none", wrote |-> 0, logged |-> FALSE]]
          ELSE \* the exception reaches main's handler, which prints the error object
               /\ dir' = dir
               /\ hook' = [hook EXCEPT ![h] =
                    [pc |-> "exit", session_id |-> sid, transcript_path |-> path,
                     user_prompt |-> "", lines |-> lines, index_data |-> NoData,
                     snapshot_data |-> NoData, n |-> Len(built.full_index),
                     out |-> "error", wrote |-> 0, logged |-> FALSE]]
    /\ UNCHANGED <<transcript, pending, files, perm, reader, prevRead, input, output>>

\* the three writes of save_index_and_snapshot, in program order
SaveStage == [save_index |-> "dump_index", save_session |-> "dump_session",
              save_current |-> "dump_current"]
NextStage == [save_index |-> "save_session", save_session |-> "save_current",
              save_current |-> "respond",
              dump_index |-> "save_session", dump_session |-> "save_current",
              dump_current |-> "respond"]
TargetFile(h) ==
    CASE hook[h].pc \in {"save_index", "dump_index"} -> "index.json"
      [] hook[h].pc \in {"save_session", "dump_session"} -> SessionFile(hook[h].session_id)
      [] OTHER -> "current.json"
\* a save that leaves in place the index document of another session
TargetDataKeepsOld(h) ==
    IF hook[h].pc \in {"save_current", "dump_current"} THEN hook[h].snapshot_data
    ELSE IF /\ files["index.json"].st = "complete"
            /\ files["index.json"].data.session_id # hook[h].session_id
         THEN files["index.json"].data
         ELSE hook[h].index_data
TargetData(h) ==
    IF hook[h].pc \in {"save_current", "dump_current"}
    THEN hook[h].snapshot_data ELSE hook[h].index_data

\* open(file, 'w'): creates or truncates the file; raises when it cannot be
\* written, and the except clause passes on to the next file
OpenFile(h) ==
    /\ hook[h].pc \in DOMAIN SaveStage
    /\ IF perm = "rw"
       THEN /\ files' = [files EXCEPT ![TargetFile(h)] = File("writing", NoData)]
            /\ hook' = [hook EXCEPT ![h].pc = SaveStage[hook[h].pc]]
       ELSE /\ files' = files
            /\ hook' = [hook EXCEPT ![h].pc = NextStage[hook[h].pc]]
    /\ UNCHANGED <<transcript, pending, dir, perm, clock, reader, prevRead,
                   input, output>>

\* one whole write, when no other process looks at the file meanwhile:
\* open(file, 'w'), json.dump, close; a file that cannot be opened is skipped
SaveFile(h) ==
    /\ hook[h].pc \in DOMAIN SaveStage
    /\ IF perm = "rw"
       THEN /\ files' = [files EXCEPT ![TargetFile(h)] = File("complete", TargetData(h))]
            /\ hook' = [hook EXCEPT ![h].pc = NextStage[hook[h].pc], ![h].wrote = @ + 1]
       ELSE /\ files' = files
            /\ hook' = [hook EXCEPT ![h].pc = NextStage[hook[h].pc]]
    /\ UNCHANGED <<transcript, pending, dir, perm, clock, reader, prevRead,
                   input, output>>

\* json.dump and the end of the with block: the whole document is in the file
CloseFile(h) ==
    /\ hook[h].pc \in {"dump_index", "dump_session", "dump_current"}
    /\ files' = [files EXCEPT ![TargetFile(h)] = File("complete", TargetData(h))]
    /\ hook' = [hook EXCEPT ![h].pc = NextStage[hook[h].pc], ![h].wrote = @ + 1]
    /\ UNCHANGED <<transcript, pending, dir, perm, clock, reader, prevRead,
                   input, output>>

\* user_prompt.strip().lower().startswith('/recall')
IsRecall(prompt) == prompt = "/recall"

\* log_recall_event: an entry is appended to recall-events.log unless the
\* log cannot be opened; the except clause passes
LogWritten == perm = "rw"

\* main after the save: the /recall check on the prompt of the input, the
\* log entry, the result object
Respond(h, prompt) ==
    /\ hook[h].pc = "respond"
    /\ hook' = [hook EXCEPT ![h].pc = "exit",
                            ![h].user_prompt = prompt,
                            ![h].logged = IsRecall(prompt) /\ LogWritten,
                            ![h].out = IF IsRecall(prompt) THEN "recall" ELSE "empty"]
    /\ UNCHANGED <<transcript, pending, files, dir, perm, clock, reader, prevRead,
                   input, output>>

\* sys.exit(0): the process ends
Exit(h) ==
    /\ hook[h].pc = "exit"
    /\ hook' = [hook EXCEPT ![h] = IdleHook]
    /\ prevRead' = IF hook[h].wrote = 0 THEN prevRead
                   ELSE [prevRead EXCEPT ![hook[h].session_id] = hook[h].lines]
    /\ UNCHANGED <<transcript, pending, files, dir, perm, clock, reader,
                   input, output>>

\* -------------------------------------------------------- the query side
\* what open() and json.load find in a file: a file that is being written
\* holds nothing yet ("empty") or a first part of the document ("partial")
Observable(file) ==
    IF file.st = "writing" THEN {"empty", "partial"} ELSE {file.st}

\* load_index of fetch_exchanges.py and show_index.py: the file's document,
\* or nothing when the file is absent or does not parse
load_index(file) == IF file.st = "complete" THEN file.data ELSE NoData

\* the query process opens and reads index.json
ReadIndex ==
    /\ \E o \in Observable(files["index.json"]) : reader' = o
    /\ reader' # reader
    /\ UNCHANGED <<transcript, pending, files, dir, perm, clock, hook, prevRead,
                   input, output>>

\* ------------------------------------------------------- specifications
\* the host waits for a hook it has started (UserPromptSubmit hooks are run
\* synchronously), so it appends to the transcript between invocations
HostWrites ==
    /\ \A h \in HookIds : hook[h].pc = "idle"
    /\ \/ \E s \in Growing, l \in HookLines : AppendLine(s, l)
       \/ \E s \in Growing : BeginAppend(s)
       \/ \E s \in Growing, l \in HookLines : FinishAppend(s, l)

\* a hook invocation whose file writes nobody observes half-way
HookStep(h) ==
    \/ \E sid \in Growing : HookStart(h, sid)
    \/ SaveFile(h)
    \/ \E prompt \in Prompts : Respond(h, prompt)
    \/ Exit(h)

\* a hook invocation, each write in its two steps
HookStepFine(h) ==
    \/ \E sid \in Growing : HookStart(h, sid)
    \/ OpenFile(h)
    \/ CloseFile(h)
    \/ \E prompt \in Prompts : Respond(h, prompt)
    \/ Exit(h)

\* hook invocations follow one another while the host writes the transcript
Next == HostWrites \/ HookStep(1)
Spec == Init /\ [][Next]_vars

\* a query process reads index.json while the hook runs
NextRace == HostWrites \/ HookStepFine(1) \/ ReadIndex
SpecRace == Init /\ [][NextRace]_vars

\* --------------------------------------------- the exchange builder alone
\* the hook's part of the state while a function is examined on its own
QuietHook ==
    /\ transcript = [s \in Sessions |-> IF s \in Growing THEN <<>> ELSE OldTranscript]
    /\ pending = [s \in Sessions |-> FALSE]
    /\ files = [f \in FileNames |-> AbsentFile]
    /\ dir = FALSE
    /\ perm = "rw"
    /\ clock = 0
    /\ hook = [h \in HookIds |-> IdleHook]
    /\ reader = "none"
    /\ prevRead = [s \in Sessions |-> NotRun]

\* the messages of the lists given to the builder
Message(role, text, ts) == [role |-> role, text |-> text, timestamp |-> ts]
BuilderMessages ==
    {Message("user", <<"x">>, TS("iso", 1, 10)),
     Message("user", <<"y">>, TS("iso", 1, 11)),
     Message("assistant", <<"x">>, TS("iso", 1, 20)),
     Message("assistant", <<"y">>, TS("iso", 1, 21))}
MessageLists == UNION {[1..n -> BuilderMessages] : n \in 0..MaxMsgs}

InitPair == QuietHook /\ input \in MessageLists /\ output = NoOutput

BuildExchanges ==
    /\ ~output.computed
    /\ output' = [computed |-> TRUE, value |-> build_exchanges_from_messages(input)]
    /\ UNCHANGED <<hookVars, input>>

NextPair == BuildExchanges
SpecPair == InitPair /\ [][NextPair]_vars

\* ================================================================ claims
\* the positions of a message list where a user message is immediately
\* followed by an assistant message
PairPositions(m) ==
    {i \in 1..(Len(m) - 1) : m[i].role = "user" /\ m[i + 1].role = "assistant"}

\* C3: for every message list the builder returns exactly one exchange for
\* each position i where message i is a user message and message i+1 an
\* assistant message, in order, numbered from 1, made of those two messages
\* (the user's timestamp), and no other exchange.
C3_PairingCorrect ==
    output.computed =>
        LET P == PairPositions(input)
            ex == output.value
        IN /\ Len(ex) = Cardinality(P)
           /\ \A k \in 1..Len(ex) :
                \E i \in P :
                   /\ Cardinality({j \in P : j <= i}) = k
                   /\ ex[k] = [idx |-> k, user_text |-> input[i].text,
                               assistant_text |-> input[i + 1].text,
                               timestamp |-> input[i].timestamp]

\* C3 witness: user, user, assistant(, ...): the first user is skipped, the
\* second is paired, and a trailing user yields nothing
C3_Witness ==
    /\ output.computed
    /\ Len(input) = 4
    /\ input[1].role = "user" /\ input[2].role = "user"
    /\ input[3].role = "assistant" /\ input[4].role = "user"
    /\ input[1].text # input[2].text
    /\ Len(output.value) = 1
    /\ output.value[1].user_text = input[2].text

\* ------------------------------------------------- claims about the hook
IsPrefix(a, b) == Len(a) <= Len(b) /\ \A k \in 1..Len(a) : a[k] = b[k]

\* the run of hook h has built the index document it saves
Built(h) == hook[h].pc # "idle" /\ hook[h].index_data # NoData

\* the index files a run of session sid writes
IndexFilesOf(sid) == {"index.json", SessionFile(sid)}

\* file f holds a whole index document of session sid
HoldsIndexOf(f, sid) == files[f].st = "complete" /\ files[f].data.session_id = sid

\* document d is the index rebuilt from the message list m: one entry for
\* each user message immediately followed by an assistant message, in
\* order, numbered from 1
Rebuilt(d, m) ==
    LET P == PairPositions(m)
    IN /\ d.total_exchanges = Cardinality(P)
       /\ Len(d.exchanges) = Cardinality(P)
       /\ \A k \in 1..Len(d.exchanges) :
            \E i \in P :
               /\ Cardinality({j \in P : j <= i}) = k
               /\ d.exchanges[k] = [idx |-> k,
                                    preview |-> make_preview(m[i].text, PREVIEW_LENGTH),
                                    timestamp |-> m[i].timestamp]

\* C1: a run of the hook that reads the transcript as the previous run of
\* the session read it saves the same total_exchanges and the same exchanges
\* (idx, preview and timestamp of every entry) as the index files hold from
\* that previous run, before and after it writes them.
C1_IdempotentContinuation ==
    \A h \in HookIds :
        (Built(h) /\ hook[h].lines = prevRead[hook[h].session_id]) =>
            \A f \in IndexFilesOf(hook[h].session_id) :
                HoldsIndexOf(f, hook[h].session_id) =>
                    /\ files[f].data.total_exchanges = hook[h].index_data.total_exchanges
                    /\ files[f].data.exchanges = hook[h].index_data.exchanges

\* C1 witness: the second run of s1 on an unchanged transcript with at least
\* one exchange has written its three files
C1_Witness ==
    \E h \in HookIds :
        /\ hook[h].pc = "exit" /\ hook[h].wrote = 3 /\ clock = 2
        /\ hook[h].lines = prevRead[hook[h].session_id]
        /\ hook[h].index_data.total_exchanges >= 1
        /\ files["index.json"].data = hook[h].index_data

\* C2: in every index file, total_exchanges is the number of entries and
\* the entry at position i (from 1) has idx i.
C2_Contiguity ==
    \A f \in IndexFiles :
        files[f].st = "complete" =>
            /\ files[f].data.total_exchanges = Len(files[f].data.exchanges)
            /\ \A i \in 1..Len(files[f].data.exchanges) : files[f].data.exchanges[i].idx = i

\* C2 witness: after two runs the index of s1 holds two exchanges
C2_Witness ==
    /\ clock = 2
    /\ \A f \in IndexFilesOf("s1") :
         HoldsIndexOf(f, "s1") /\ files[f].data.total_exchanges = 2
    /\ files["index.json"].data.updated_at = TS("clock", 0, 2)

\* the messages the hook parses from the lines it read
MessagesOf(lines) == parse_transcript_with_timestamps(TRUE, lines)

\* the run of hook h is about to write, the previous run of its session left
\* its index in the session's file and read a transcript ending in a user
\* message, and the transcript now continues with an assistant message
TrailingUserAnswered(h) ==
    LET sid == hook[h].session_id
        prev == MessagesOf(prevRead[sid])
        cur == MessagesOf(hook[h].lines)
    IN /\ hook[h].pc = "save_index"
       /\ prevRead[sid] # NotRun
       /\ HoldsIndexOf(SessionFile(sid), sid)
       /\ Len(prev) >= 1
       /\ prev[Len(prev)].role = "user"
       /\ Len(cur) > Len(prev)
       /\ SubSeq(cur, 1, Len(prev)) = prev
       /\ cur[Len(prev) + 1].role = "assistant"

\* C4: the index saved by the run that read a transcript ending in a user
\* message holds no entry for that message (as many entries as adjacent
\* user-assistant pairs); once an assistant message follows it, the next run
\* keeps the saved entries, adds one entry for that pair right after them,
\* and beyond it only the entries of the pairs that come later.
C4_TrailingUserPairedOnce ==
    \A h \in HookIds :
        TrailingUserAnswered(h) =>
            LET sid == hook[h].session_id
                prev == MessagesOf(prevRead[sid])
                cur == MessagesOf(hook[h].lines)
                old == files[SessionFile(sid)].data
                new == hook[h].index_data
            IN /\ old.total_exchanges = Cardinality(PairPositions(prev))
               /\ IsPrefix(old.exchanges, new.exchanges)
               /\ new.total_exchanges =
                     old.total_exchanges + 1
                        + Cardinality({i \in PairPositions(cur) : i > Len(prev)})
               /\ new.exchanges[old.total_exchanges + 1] =
                     [idx |-> old.total_exchanges + 1,
                      preview |-> make_preview(prev[Len(prev)].text, PREVIEW_LENGTH),
                      timestamp |-> prev[Len(prev)].timestamp]

\* C4 witness: the first run saw an exchange and then an unanswered user
\* message; the second run sees the answer and nothing more
C4_Witness ==
    \E h \in HookIds :
        /\ TrailingUserAnswered(h)
        /\ files[SessionFile(hook[h].session_id)].data.total_exchanges = 1
        /\ hook[h].index_data.total_exchanges = 2
        /\ Len(MessagesOf(prevRead[hook[h].session_id])) = 3

\* C5: the exchanges an index file holds from an earlier run of the session
\* are a prefix of the exchanges every later run of the session saves.
C5_AppendOnly ==
    \A h \in HookIds :
        Built(h) =>
            \A f \in IndexFilesOf(hook[h].session_id) :
                HoldsIndexOf(f, hook[h].session_id) =>
                    IsPrefix(files[f].data.exchanges, hook[h].index_data.exchanges)

\* C5 witness: the second run is about to replace an index of one exchange
\* by an index of two
C5_Witness ==
    \E h \in HookIds :
        /\ hook[h].pc = "save_index"
        /\ \A f \in IndexFilesOf(hook[h].session_id) :
             HoldsIndexOf(f, hook[h].session_id) /\ files[f].data.total_exchanges = 1
        /\ hook[h].index_data.total_exchanges = 2

\* the run of hook h is past its write of index.json
PastIndexWrite(h) == hook[h].pc \in {"save_session", "save_current", "respond", "exit"}

C7_OffsetOnLineBoundary ==
    \A f \in IndexFiles :
        (files[f].st = "complete" /\ files[f].data.session_id \in Growing) =>
            /\ "byte_offset" \in DOMAIN files[f].data
            /\ files[f].data.byte_offset \in 0..Len(transcript[files[f].data.session_id])

\* C8: a query process that opens index.json while the hook writes it finds
\* a whole document (or no file), never an empty or a partly written one.
C8_ReaderSeesWholeIndex == reader \notin {"empty", "partial"}

\* C9: with writable storage, a run of the hook for a session no earlier run
\* has saved an index for (index.json is absent, does not parse, or belongs
\* to another session) ends without the error result, and once it has
\* written index.json the file holds the current session's id and path and
\* the index rebuilt from the whole of the transcript it read.
C9_RebuildWithoutIndex ==
    \A h \in HookIds :
        (/\ PastIndexWrite(h)
         /\ perm = "rw"
         /\ prevRead[hook[h].session_id] = NotRun)
        => /\ hook[h].out # "error"
           /\ HoldsIndexOf("index.json", hook[h].session_id)
           /\ files["index.json"].data.transcript_path = PathOf(hook[h].session_id)
           /\ Rebuilt(files["index.json"].data, MessagesOf(hook[h].lines))

\* C9 witness: the first run of s1 ends; the storage held the files of s2,
\* and index.json now holds the one exchange of s1
C9_Witness ==
    \E h \in HookIds :
        /\ hook[h].pc = "exit" /\ hook[h].session_id = "s1"
        /\ prevRead["s1"] = NotRun
        /\ hook[h].out \in {"recall", "empty"}
        /\ HoldsIndexOf(SessionFile("s2"), "s2")
        /\ HoldsIndexOf("index.json", "s1")
        /\ files["index.json"].data.total_exchanges = 1

\* C10: when the storage cannot be written, the run still ends with the
\* normal result: the recall message for a /recall prompt, the empty object
\* otherwise, with the number of exchanges of the transcript it read.
C10_SaveFailureSwallowed ==
    \A h \in HookIds :
        (perm = "ro" /\ hook[h].pc = "exit") =>
            /\ hook[h].out = IF IsRecall(hook[h].user_prompt) THEN "recall" ELSE "empty"
            /\ hook[h].out # "error"
            /\ hook[h].n = Cardinality(PairPositions(MessagesOf(hook[h].lines)))

\* =============================================== one whole run of the hook
\* records whose fields have unexpected types
NonDictMessageLine ==
    Line("object", "user", "", "nondict", "", ItemsContent(<<>>), TS("iso", 1, 550))
BadContentLine ==
    Line("object", "assistant", "", "dict", "", BadContent, TS("iso", 1, 551))

\* what the hook is started with.  stdin: "invalid" (not JSON), "scalar"
\* (JSON, not an object), "object".  Fields of the object: session_id ("" when
\* absent), path ("absent": no transcript_path, "nofile": names no file,
\* "unreadable": open() raises, "file", "nonstring": not a string, os.path.exists
\* raises TypeError), lines (what the file holds), prompt ("" when absent,
\* "nonstring" when user_prompt is not a string)
HookInput(stdin, session_id, path, lines, prompt) ==
    [stdin |-> stdin, session_id |-> session_id, path |-> path, lines |-> lines,
     prompt |-> prompt]

MainTranscripts ==
    {<<>>,
     <<UserLine(<<"q", "1">>, TS("iso", 1, 540)), AssistantLine(<<"A", "n">>, TS("iso", 1, 541))>>,
     <<UserLine(<<"q", "1">>, TS("iso", 1, 540)), ScalarLine,
       AssistantLine(<<"A", "n">>, TS("iso", 1, 541))>>,
     <<InvalidLine, BlankLine, NonDictMessageLine>>,
     <<BadContentLine>>}

HookInputs ==
    {HookInput(stdin, session_id, path, lines, prompt) :
        stdin \in {"invalid", "scalar", "object"},
        session_id \in {"", "s1"},
        path \in {"absent", "nofile", "unreadable", "file", "nonstring"},
        lines \in MainTranscripts,
        prompt \in {"", "/recall", "hello", "nonstring"}}

\* the messages main gets from parse_transcript_with_timestamps: an absent
\* path or file gives none, and so does a file open() cannot read (the outer
\* except passes)
MainMessages(in) ==
    IF in.path = "file" THEN parse_transcript_with_timestamps(TRUE, in.lines)
    ELSE IF in.path = "unreadable" THEN <<>>
    ELSE parse_transcript_with_timestamps(FALSE, in.lines)

\* the try block of main: the exception it raises ("none" when it runs to
\* its end), what it has printed on stdout, whether it got to the file writes
TryBody(in) ==
    LET n == Len(build_exchange_index(MainMessages(in)).full_index)
        Raised(e, saved) == [raised |-> e, printed |-> <<>>, saved |-> saved, n |-> n]
    IN IF in.stdin = "invalid" THEN Raised("JSONDecodeError", FALSE)
       ELSE IF in.stdin = "scalar" THEN Raised("AttributeError", FALSE)
       ELSE IF in.path = "nonstring" THEN Raised("TypeError", FALSE)
       ELSE IF ~MkdirOk THEN Raised("OSError", FALSE)
       ELSE IF in.prompt = "nonstring" THEN Raised("AttributeError", TRUE)
       ELSE [raised |-> "none",
             printed |-> <<IF IsRecall(in.prompt) THEN "recall" ELSE "empty">>,
             saved |-> TRUE, n |-> n]

\* a handler that catches JSON errors only
HandlerForJSONOnly(body) ==
    IF body.raised = "none" THEN [stdout |-> body.printed, exit_code |-> 0]
    ELSE IF body.raised = "JSONDecodeError" THEN [stdout |-> <<"error">>, exit_code |-> 0]
    ELSE [stdout |-> <<>>, exit_code |-> 1]

\* except Exception: print the error object; finally: sys.exit(0)
Handler(body) ==
    IF body.raised = "none" THEN [stdout |-> body.printed, exit_code |-> 0]
    ELSE [stdout |-> body.printed \o <<"error">>, exit_code |-> 0]

\* main: the objects printed on stdout and the exit code
main(in) == Handler(TryBody(in))

InitMain ==
    /\ QuietHook
    /\ input \in HookInputs
    /\ output = NoOutput

\* the run of the hook on the input, with its effects on the storage
RunMain ==
    /\ ~output.computed
    /\ output' = [computed |-> TRUE, value |-> main(input)]
    /\ clock' = clock + 1
    /\ LET body == TryBody(input)
           sid == IF input.session_id = "" THEN "unknown" ELSE input.session_id
           built == build_exchange_index(MainMessages(input))
           now == TS("clock", 0, clock + 1)
           index_data == IndexData(sid, input.path, built.full_index, now)
           snapshot_data == SnapshotData(sid, built.full_index, built.recent_exchanges, now)
       IN /\ dir' = (dir \/ body.saved)
          /\ files' = IF body.saved /\ perm = "rw"
                      THEN [f \in FileNames |->
                              CASE f = "index.json" -> File("complete", index_data)
                                [] f = "current.json" -> File("complete", snapshot_data)
                                [] f = SessionFile(sid) /\ sid \in Sessions ->
                                      File("complete", index_data)
                                [] OTHER -> files[f]]
                      ELSE files
    /\ UNCHANGED <<transcript, pending, perm, hook, reader, prevRead, input>>

NextMain == RunMain
SpecMain == InitMain /\ [][NextMain]_vars

parse_transcript_messages(exists, lines) ==
    IF ~exists THEN <<>> ELSE ParseFrom(lines, 1, <<>>)

ParserLines ==
    {UserLine(<<"q", "1">>, TS("iso", 1, 540)),
     AssistantLine(<<"A", "n">>, TS("iso", 1, 541)),
     InvalidLine, ScalarLine, NonDictMessageLine, BadContentLine}
ParserInputs == UNION {[1..n -> ParserLines] : n \in 0..MaxParseLines}

InitParse == QuietHook /\ input \in ParserInputs /\ output = NoOutput

ParseTranscript ==
    /\ ~output.computed
    /\ output' = [computed |-> TRUE,
                  value |-> parse_transcript_with_timestamps(TRUE, input),
                  utils |-> parse_transcript_messages(TRUE, input)]
    /\ UNCHANGED <<hookVars, input>>

NextParse == ParseTranscript
SpecParse == InitParse /\ [][NextParse]_vars

\* a line that holds a user or assistant record with non-empty text
WellFormedRecord(l) ==
    /\ l.form = "object" /\ l.msg = "dict"
    /\ (IF (IF l.type # "" THEN l.type ELSE l.role) \in Roles
        THEN TRUE ELSE l.mrole \in Roles)
    /\ l.content.kind \in {"str", "items"}
    /\ extract_text_content(l.content).text # <<>>

\* C12: the parsers return one message for every well-formed record of the
\* file, in file order, whatever the other lines hold: a line that is not
\* valid JSON, not a JSON object, or has a message or content of an
\* unexpected type is skipped and the scan goes on.
C12_BadLineSkipped ==
    output.computed /\ "utils" \in DOMAIN output =>
        LET good == SelectSeq(input, WellFormedRecord)
        IN /\ Len(output.value) = Len(good)
           /\ \A k \in 1..Len(good) :
                /\ output.value[k].text = extract_text_content(good[k].content).text
                /\ output.value[k].timestamp = good[k].timestamp
           /\ output.utils = output.value

\* ================================================== fetch_exchanges: lastN
Digits == <<"0", "1", "2", "3", "4", "5", "6", "7", "8", "9">>
IsDigit(c) == \E d \in 1..10 : Digits[d] = c
DigitValue(c) == (CHOOSE d \in 1..10 : Digits[d] = c) - 1

RECURSIVE DigitsValue(_, _)
\* the value of the decimal digits s, read left to right after acc
DigitsValue(s, acc) ==
    IF s = <<>> THEN acc ELSE DigitsValue(Tail(s), 10 * acc + DigitValue(Head(s)))

\* int(s): an optional sign and at least one digit; ok = FALSE is ValueError
int(s) ==
    LET neg == s # <<>> /\ Head(s) = "-"
        body == IF neg THEN Tail(s) ELSE s
    IN IF body = <<>> \/ \E k \in 1..Len(body) : ~IsDigit(body[k])
       THEN [ok |-> FALSE, value |-> 0]
       ELSE [ok |-> TRUE,
             value |-> IF neg THEN 0 - DigitsValue(body, 0) ELSE DigitsValue(body, 0)]

\* str.lower() on the letters the arguments use
LowerChar(c) ==
    CASE c = "L" -> "l" [] c = "A" -> "a" [] c = "S" -> "s" [] c = "T" -> "t"
      [] OTHER -> c
lower(s) == [k \in 1..Len(s) |-> LowerChar(s[k])]

startswith(s, prefix) == Len(s) >= Len(prefix) /\ SubSeq(s, 1, Len(prefix)) = prefix

\* a parser that takes the first total - n + 1 .. total without the max
parse_last_n_unclamped(arg, total_exchanges) ==
    IF startswith(lower(arg), <<"l", "a", "s", "t">>)
    THEN LET n == int(SubSeq(arg, 5, Len(arg)))
         IN IF n.ok THEN {i \in (total_exchanges - n.value + 1)..total_exchanges : TRUE}
            ELSE {}
    ELSE {}

\* parse_last_n: set(range(max(1, total - n + 1), total + 1)), or the empty
\* set when the argument does not start with 'last' or int() raises
parse_last_n(arg, total_exchanges) ==
    IF startswith(lower(arg), <<"l", "a", "s", "t">>)
    THEN LET n == int(SubSeq(arg, 5, Len(arg)))
         IN IF n.ok
            THEN {i \in Max(1, total_exchanges - n.value + 1)..total_exchanges : TRUE}
            ELSE {}
    ELSE {}

\* str(n) for 0 <= n < 100
Decimal(n) ==
    IF n < 10 THEN <<Digits[n + 1]>> ELSE <<Digits[(n \div 10) + 1], Digits[(n % 10) + 1]>>
LastArg(n) == <<"l", "a", "s", "t">> \o Decimal(n)

\* arguments that name no N
BadLastArgs ==
    {<<"l", "a", "s", "t">>, <<"l", "a", "s", "t", "x">>, <<"l", "a", "s", "t", "1", "x">>,
     <<"l", "a", "s", "5">>, <<"l", "a", "s", "t", "-", "1">>, <<"L", "A", "S", "T", "2">>}
LastArgs == {LastArg(n) : n \in 0..MaxLastN} \cup BadLastArgs

InitLast ==
    /\ QuietHook
    /\ input \in [arg : LastArgs, total : 0..MaxTotal]
    /\ output = NoOutput

ParseLastN ==
    /\ ~output.computed
    /\ output' = [computed |-> TRUE, value |-> parse_last_n(input.arg, input.total)]
    /\ UNCHANGED <<hookVars, input>>

NextLast == ParseLastN
SpecLast == InitLast /\ [][NextLast]_vars

\* C13: for every total >= 1 and every N, the argument lastN gives the
\* indices 1..total when N >= total and the N highest indices
\* total-N+1..total when N < total.
C13_LastNClamped ==
    output.computed =>
        \A n \in 0..MaxLastN :
            (input.arg = LastArg(n) /\ input.total >= 1) =>
                /\ n >= input.total => output.value = 1..input.total
                /\ n < input.total =>
                      /\ output.value = (input.total - n + 1)..input.total
                      /\ Cardinality(output.value) = n

\* C13 witness: last12 with 5 exchanges gives all five
C13_Witness ==
    /\ output.computed
    /\ input.arg = LastArg(12) /\ input.total = 5
    /\ output.value = {1, 2, 3, 4, 5}

\* ================================================== queries by time of day
\* a timestamp datetime.fromisoformat rejects
BadTS == TS("bad", 0, 0)

\* get_date_from_timestamp: the date of a parseable timestamp, else None
NoDate == [ok |-> FALSE, date |-> 0]
get_date_from_timestamp(ts) ==
    IF ts.kind = "iso" THEN [ok |-> TRUE, date |-> ts.day] ELSE NoDate

Abs(x) == IF x < 0 THEN 0 - x ELSE x
\* float('inf'): above every difference of two minutes of the day
Infinity == 1440

RECURSIVE BestFromLastWins(_, _, _, _)
\* a scan that also replaces the best match on an equal difference
BestFromLastWins(cands, i, target_minutes, best) ==
    IF i >= Len(cands) THEN best
    ELSE IF cands[i + 1].timestamp.kind # "iso"
         THEN BestFromLastWins(cands, i + 1, target_minutes, best)
         ELSE LET diff == Abs(cands[i + 1].timestamp.minute - target_minutes)
              IN IF diff <= best.best_diff
                 THEN BestFromLastWins(cands, i + 1, target_minutes,
                                       [best_idx |-> i, best_diff |-> diff])
                 ELSE BestFromLastWins(cands, i + 1, target_minutes, best)

RECURSIVE BestFrom(_, _, _, _)
\* the loop that looks for the closest time of day: i is the 0-based
\* position examined; a timestamp that does not parse is passed over
BestFrom(cands, i, target_minutes, best) ==
    IF i >= Len(cands) THEN best
    ELSE IF cands[i + 1].timestamp.kind # "iso"
         THEN BestFrom(cands, i + 1, target_minutes, best)
         ELSE LET diff == Abs(cands[i + 1].timestamp.minute - target_minutes)
              IN IF diff < best.best_diff
                 THEN BestFrom(cands, i + 1, target_minutes,
                               [best_idx |-> i, best_diff |-> diff])
                 ELSE BestFrom(cands, i + 1, target_minutes, best)

best_idx_of(cands, target_minutes) ==
    BestFrom(cands, 0, target_minutes, [best_idx |-> 0, best_diff |-> Infinity]).best_idx

\* [cands[i]['idx'] for i in range(max(0, best - w // 2), min(len, best + w // 2 + 1))]
WindowAround(cands, best_idx, window) ==
    LET start == Max(0, best_idx - (window \div 2))
        end == Min(Len(cands), best_idx + (window \div 2) + 1)
    IN [k \in 1..Max(0, end - start) |-> cands[start + k].idx]

\* the exchanges whose date is target_date, in list order
date_matches(exchanges, target_date) ==
    SelectSeq(exchanges, LAMBDA ex : get_date_from_timestamp(ex.timestamp) = target_date)

\* the list the closest time is looked for in: the exchanges of the target
\* date when a date is given and some exchange has it, else all of them
candidates(exchanges, target_date) ==
    IF target_date.ok /\ date_matches(exchanges, target_date) # <<>>
    THEN date_matches(exchanges, target_date)
    ELSE exchanges

\* a search that takes its window from the whole list
find_exchanges_by_time_wide(exchanges, target_minutes, target_date, window) ==
    IF exchanges = <<>> THEN <<>>
    ELSE LET c == candidates(exchanges, target_date)
         IN WindowAround(exchanges, c[best_idx_of(c, target_minutes) + 1].idx - 1, window)

\* utils.find_exchanges_by_time
find_exchanges_by_time(exchanges, target_minutes, target_date, window) ==
    IF exchanges = <<>> THEN <<>>
    ELSE LET c == candidates(exchanges, target_date)
         IN WindowAround(c, best_idx_of(c, target_minutes), window)

\* fetch_exchanges.find_exchanges_around_time: a set of indices
find_exchanges_around_time(exchanges, target_minutes) ==
    IF exchanges = <<>> THEN {}
    ELSE LET w == WindowAround(exchanges, best_idx_of(exchanges, target_minutes),
                               AROUND_TIME_WINDOW)
         IN {w[k] : k \in 1..Len(w)}

\* an entry of the index
IndexEntry(idx, preview, ts) == [idx |-> idx, preview |-> preview, timestamp |-> ts]

\* the timestamps of the exchanges searched: two times on day 1, one of
\* them again on day 2, and one that does not parse
TimedStamps == {TS("iso", 1, 600), TS("iso", 1, 660), TS("iso", 2, 600), BadTS}
TimedLists ==
    UNION {{[k \in 1..n |-> IndexEntry(k, <<>>, f[k])] : f \in [1..n -> TimedStamps]} :
              n \in 0..MaxTimed}
\* 10:00, 10:30 (as far from 10:00 as from 11:00) and 11:40
TargetMinutes == {600, 630, 700}
TargetDates == {NoDate} \cup {[ok |-> TRUE, date |-> d] : d \in 1..3}

InitTime ==
    /\ QuietHook
    /\ input \in [exchanges : TimedLists, target_minutes : TargetMinutes,
                  target_date : TargetDates, window : 1..MaxWindow]
    /\ output = NoOutput

FindByTime ==
    /\ ~output.computed
    /\ output' =
         [computed |-> TRUE,
          value |-> find_exchanges_by_time(input.exchanges, input.target_minutes,
                                           input.target_date, input.window),
          best_idx |-> best_idx_of(candidates(input.exchanges, input.target_date),
                                   input.target_minutes),
          around |-> find_exchanges_around_time(input.exchanges, input.target_minutes)]
    /\ UNCHANGED <<hookVars, input>>

NextTime == FindByTime
SpecTime == InitTime /\ [][NextTime]_vars

\* the positions of the exchanges of the input that are on the target date
OnDate == {k \in 1..Len(input.exchanges) :
              /\ input.exchanges[k].timestamp.kind = "iso"
              /\ input.target_date.ok
              /\ input.exchanges[k].timestamp.day = input.target_date.date}
\* the positions the best match is looked for among
Candidates == IF OnDate # {} THEN OnDate ELSE 1..Len(input.exchanges)
Parseable == {k \in Candidates : input.exchanges[k].timestamp.kind = "iso"}
DiffAt(k) == Abs(input.exchanges[k].timestamp.minute - input.target_minutes)
\* the position in the input of the exchange the search chose
ChosenPosition ==
    CHOOSE k \in Candidates : Cardinality({j \in Candidates : j < k}) = output.best_idx

\* C15: among the candidates whose timestamp parses, the exchange chosen is
\* one whose time of day is nearest to the target's, and the first such in
\* list order.
C15_BestMatchNearestFirst ==
    (output.computed /\ Parseable # {}) =>
        /\ ChosenPosition \in Parseable
        /\ \A k \in Parseable :
             /\ DiffAt(ChosenPosition) <= DiffAt(k)
             /\ DiffAt(k) = DiffAt(ChosenPosition) => ChosenPosition <= k

\* C15 witness: 10:00, unparseable, 11:00 and the target 10:30: a tie, and
\* the first exchange is chosen
C15_Witness ==
    /\ output.computed
    /\ Len(input.exchanges) = 3 /\ ~input.target_date.ok
    /\ input.exchanges[1].timestamp = TS("iso", 1, 600)
    /\ input.exchanges[2].timestamp = BadTS
    /\ input.exchanges[3].timestamp = TS("iso", 1, 660)
    /\ input.target_minutes = 630
    /\ output.best_idx = 0

\* C16: for every window size W >= 1 the search returns at most W indices,
\* the ones around the best match, and exactly W of them when the best
\* match is at least W/2 positions from both ends of the candidate list.
C16_WindowOfSizeW ==
    (output.computed /\ input.exchanges # <<>>) =>
        LET n == Cardinality(Candidates)
            W == input.window
        IN /\ Len(output.value) <= W
           /\ \E k \in 1..Len(output.value) :
                output.value[k] = input.exchanges[ChosenPosition].idx
           /\ (2 * output.best_idx >= W /\ 2 * (n - 1 - output.best_idx) >= W)
                 => Len(output.value) = W

\* C17: with a target date that some exchange has, every index returned is
\* that of an exchange on the date and the exchange chosen is on the date;
\* with a target date no exchange has, the result is the result of the same
\* search without a date.
C17_DateRestriction ==
    (output.computed /\ input.target_date.ok) =>
        IF OnDate # {}
        THEN /\ \A k \in 1..Len(output.value) :
                  \E j \in OnDate : input.exchanges[j].idx = output.value[k]
             /\ ChosenPosition \in OnDate
             /\ \E k \in 1..Len(output.value) :
                  output.value[k] = input.exchanges[ChosenPosition].idx
        ELSE output.value = find_exchanges_by_time(input.exchanges, input.target_minutes,
                                                   NoDate, input.window)

\* C17 witness: day 1, day 2, day 1, day 1 and the target date 2: only the
\* second exchange is returned although the window is 3
C17_Witness ==
    /\ output.computed
    /\ Len(input.exchanges) = 4 /\ input.window = 3
    /\ input.target_date = [ok |-> TRUE, date |-> 2]
    /\ input.exchanges[2].timestamp = TS("iso", 2, 600)
    /\ \A k \in {1, 3, 4} : input.exchanges[k].timestamp.day = 1
    /\ output.value = <<2>>

\* ====================================================== keyword search
\* `keyword in text`: keyword is a substring of text
Contains(text, keyword) ==
    \E i \in 0..(Len(text) - Len(keyword)) : SubSeq(text, i + 1, i + Len(keyword)) = keyword

\* fetch_exchanges.search_exchanges (show_index.search_exchanges returns the
\* entries of the same indices): the entries whose preview holds the keyword
search_exchanges(exchanges, keyword) ==
    {exchanges[k].idx : k \in {j \in 1..Len(exchanges) :
                                  Contains(lower(exchanges[j].preview), lower(keyword))}}

\* the texts of the exchanges searched and the keywords
SearchedExchanges ==
    {[user_text |-> u, assistant_text |-> a, timestamp |-> TS("iso", 1, 600)] :
        u \in {<<"a", "t">>, <<"A", "T">>, <<"s">>}, a \in {<<"t", "a">>, <<"s">>}}
SearchedLists ==
    UNION {{[k \in 1..n |-> [idx |-> k, user_text |-> f[k].user_text,
                             assistant_text |-> f[k].assistant_text,
                             timestamp |-> f[k].timestamp]] :
               f \in [1..n -> SearchedExchanges]} : n \in 0..MaxSearched}
Keywords == {<<"a", "t">>, <<"T", "A">>, <<"s">>}

InitSearch ==
    /\ QuietHook
    /\ input \in [all_exchanges : SearchedLists, keyword : Keywords]
    /\ output = NoOutput

\* the hook indexes the exchanges, a query searches the index
SearchIndex ==
    /\ ~output.computed
    /\ output' = [computed |-> TRUE,
                  value |-> search_exchanges(full_index_of(input.all_exchanges),
                                             input.keyword)]
    /\ UNCHANGED <<hookVars, input>>

NextSearch == SearchIndex
SpecSearch == InitSearch /\ [][NextSearch]_vars

\* C18: the search returns the exchanges whose user text or assistant text
\* holds the keyword, compared without regard to case, and no other.
C18_SearchBothTexts ==
    output.computed =>
        \A k \in 1..Len(input.all_exchanges) :
            (input.all_exchanges[k].idx \in output.value)
            <=> \/ Contains(lower(input.all_exchanges[k].user_text), lower(input.keyword))
                \/ Contains(lower(input.all_exchanges[k].assistant_text),
                            lower(input.keyword))

\* ====================================================== flat rendering
\* an element of the list format_exchanges joins with newlines.  kind:
\* "none_found", "header" (### Exchange #idx), "blank", "user", "assistant",
\* "rule" (---), "marker" (size limit reached, `more` exchanges not shown)
Item(kind, idx, text, more) == [kind |-> kind, idx |-> idx, text |-> text, more |-> more]

\* the eight elements appended for one exchange
Block(ex, user_text, assistant_text) ==
    <<Item("header", ex.idx, <<>>, 0), Item("blank", 0, <<>>, 0),
      Item("user", ex.idx, user_text, 0), Item("blank", 0, <<>>, 0),
      Item("assistant", ex.idx, assistant_text, 0), Item("blank", 0, <<>>, 0),
      Item("rule", 0, <<>>, 0), Item("blank", 0, <<>>, 0)>>

RECURSIVE FormatFromChecksLate(_, _, _, _)
\* a loop that tests the budget against the characters already rendered
FormatFromChecksLate(exchanges, i, out, total_chars) ==
    IF i > Len(exchanges) THEN out
    ELSE LET user_text == truncate_text(exchanges[i].user, MAX_CHARS_PER_MESSAGE)
             assistant_text == truncate_text(exchanges[i].assistant, MAX_CHARS_PER_MESSAGE)
             exchange_chars == Len(user_text) + Len(assistant_text)
         IN IF total_chars > MAX_TOTAL_CHARS
            THEN Append(out, Item("marker", 0, <<>>, Len(exchanges) - Len(out)))
            ELSE FormatFromChecksLate(exchanges, i + 1,
                                      out \o Block(exchanges[i], user_text, assistant_text),
                                      total_chars + exchange_chars)

RECURSIVE FormatFrom(_, _, _, _)
\* the for loop of format_exchanges
FormatFrom(exchanges, i, out, total_chars) ==
    IF i > Len(exchanges) THEN out
    ELSE LET user_text == truncate_text(exchanges[i].user, MAX_CHARS_PER_MESSAGE)
             assistant_text == truncate_text(exchanges[i].assistant, MAX_CHARS_PER_MESSAGE)
             exchange_chars == Len(user_text) + Len(assistant_text)
         IN IF total_chars + exchange_chars > MAX_TOTAL_CHARS
            THEN Append(out, Item("marker", 0, <<>>, Len(exchanges) - Len(out)))
            ELSE FormatFrom(exchanges, i + 1,
                            out \o Block(exchanges[i], user_text, assistant_text),
                            total_chars + exchange_chars)

format_exchanges(exchanges) ==
    IF exchanges = <<>> THEN <<Item("none_found", 0, <<>>, 0)>>
    ELSE FormatFrom(exchanges, 1, <<>>, 0)

\* a text of n characters
TextOfLength(n) == [i \in 1..n |-> "a"]
\* the exchanges rendered: short texts, texts of exactly the per-message
\* limit, texts one character over it
FormattedLengths == {2, MAX_CHARS_PER_MESSAGE, MAX_CHARS_PER_MESSAGE + 1}
FormattedLists ==
    UNION {{[k \in 1..n |-> [idx |-> k, user |-> TextOfLength(f[k]),
                             assistant |-> TextOfLength(f[k]),
                             timestamp |-> TS("iso", 1, 600)]] :
               f \in [1..n -> FormattedLengths]} : n \in 0..MaxFormatted}

InitFormat == QuietHook /\ input \in FormattedLists /\ output = NoOutput

FormatExchanges ==
    /\ ~output.computed
    /\ output' = [computed |-> TRUE, value |-> format_exchanges(input)]
    /\ UNCHANGED <<hookVars, input>>

NextFormat == FormatExchanges
SpecFormat == InitFormat /\ [][NextFormat]_vars

\* the elements of the output of the given kind, in order
ItemsOfKind(kind) == SelectSeq(output.value, LAMBDA it : it.kind = kind)
RECURSIVE SumLen(_)
SumLen(items) == IF items = <<>> THEN 0 ELSE Len(Head(items).text) + SumLen(Tail(items))
\* the characters of an exchange as rendered: its two texts, each cut to the
\* per-message limit plus the truncation note
RenderedChars(ex) ==
    (IF Len(ex.user) <= MAX_CHARS_PER_MESSAGE THEN Len(ex.user)
     ELSE MAX_CHARS_PER_MESSAGE + Len(TruncationMarker))
    + (IF Len(ex.assistant) <= MAX_CHARS_PER_MESSAGE THEN Len(ex.assistant)
       ELSE MAX_CHARS_PER_MESSAGE + Len(TruncationMarker))

\* C20: format_exchanges renders the first exchanges of its input, in input
\* order, each with its own texts truncated; the rendered texts sum to at
\* most MAX_TOTAL_CHARS; rendering stops at the first exchange that would
\* exceed the budget, and the marker is emitted exactly when it stops there.
C20_FlatRenderingBudget ==
    (output.computed /\ input # <<>>) =>
        LET users == ItemsOfKind("user")
            assistants == ItemsOfKind("assistant")
            markers == ItemsOfKind("marker")
            r == Len(users)
        IN /\ r <= Len(input) /\ Len(assistants) = r
           /\ \A k \in 1..r :
                /\ users[k].idx = input[k].idx /\ assistants[k].idx = input[k].idx
                /\ Len(users[k].text) + Len(assistants[k].text) = RenderedChars(input[k])
                /\ IsPrefix(SubSeq(users[k].text, 1, Min(Len(input[k].user), MAX_CHARS_PER_MESSAGE)),
                            input[k].user)
           /\ SumLen(users) + SumLen(assistants) <= MAX_TOTAL_CHARS
           /\ Len(markers) = (IF r < Len(input) THEN 1 ELSE 0)
           /\ r < Len(input) =>
                /\ SumLen(users) + SumLen(assistants) + RenderedChars(input[r + 1])
                      > MAX_TOTAL_CHARS
                /\ output.value[Len(output.value)].kind = "marker"

\* C20 witness: five exchanges of over-long texts: three are rendered, the
\* fourth would pass the budget, the marker follows
C20_Witness ==
    /\ output.computed
    /\ Len(input) = 5
    /\ \A k \in 1..5 : Len(input[k].user) = MAX_CHARS_PER_MESSAGE + 1
    /\ Len(ItemsOfKind("user")) = 3
    /\ Len(ItemsOfKind("marker")) = 1

\* ================================================= fetch_exchanges.main
\* the parsing part of fetch_exchanges_from_transcript: the loop of the
\* other parsers, but an exception other than JSONDecodeError returns []
fetch_messages(exists, lines) ==
    IF ~exists \/ \E i \in 1..Len(lines) : ParseLine(lines[i]).res = "abort"
    THEN <<>>
    ELSE ParseFrom(lines, 1, <<>>)

RECURSIVE FetchFrom(_, _, _, _, _)
\* the pairing loop of fetch_exchanges_from_transcript, which keeps the
\* exchanges whose number is in target_indices
FetchFrom(messages, i, exchange_idx, target_indices, exchanges) ==
    IF i > Len(messages) THEN exchanges
    ELSE IF messages[i].role = "user"
         THEN IF i + 1 <= Len(messages) /\ messages[i + 1].role = "assistant"
              THEN FetchFrom(messages, i + 2, exchange_idx + 1, target_indices,
                             IF exchange_idx \in target_indices
                             THEN Append(exchanges,
                                         [idx |-> exchange_idx,
                                          user |-> messages[i].text,
                                          assistant |-> messages[i + 1].text,
                                          timestamp |-> messages[i].timestamp])
                             ELSE exchanges)
              ELSE FetchFrom(messages, i + 1, exchange_idx, target_indices, exchanges)
         ELSE FetchFrom(messages, i + 1, exchange_idx, target_indices, exchanges)

\* a fetch that numbers the exchanges of the transcript from 0
fetch_exchanges_from_zero(exists, lines, target_indices) ==
    FetchFrom(fetch_messages(exists, lines), 1, 0, target_indices, <<>>)

\* fetch_exchanges_from_transcript; the list is built in ascending idx, so
\* the final sort leaves it as it is
fetch_exchanges_from_transcript(exists, lines, target_indices) ==
    FetchFrom(fetch_messages(exists, lines), 1, 1, target_indices, <<>>)

\* the 10 highest of the matching indices
MostRecent(indices, n) ==
    {i \in indices : Cardinality({j \in indices : j > i}) < n}

\* what main prints: the messages (by kind) in order, the indices it
\* fetches, and the rendering of the exchanges fetched
Printed(messages, target_indices, rendered) ==
    [messages |-> messages, target_indices |-> target_indices, rendered |-> rendered]

\* the end of main: fetch the exchanges and print them
FetchAndPrint(notices, target_indices, exists, lines) ==
    LET exchanges == fetch_exchanges_from_transcript(exists, lines, target_indices)
    IN IF exchanges = <<>>
       THEN Printed(notices \o <<"could_not_fetch">>, target_indices, <<>>)
       ELSE Printed(notices \o <<"fetched">>, target_indices, format_exchanges(exchanges))

\* the arguments of a query: argc of them, the first is command; a search
\* joins the rest into keyword, around parses the rest into a time
\* (ok = FALSE when parse_time_query returns None)
Args(argc, command, keyword, time) ==
    [argc |-> argc, command |-> command, keyword |-> keyword, time |-> time]
NoTime == [ok |-> FALSE, minutes |-> 0]

\* a branch of main that returns after printing only message
Only(message) == Printed(<<message>>, {}, <<>>)

\* a lastN branch that goes on to the fetch when no index is selected
LastBranchFallsThrough(first_arg, total_exchanges, exists, lines) ==
    FetchAndPrint(<<>>, parse_last_n(first_arg, total_exchanges), exists, lines)

\* main, the "lastN" branch
LastBranch(first_arg, total_exchanges, exists, lines) ==
    LET target_indices == parse_last_n(first_arg, total_exchanges)
    IN IF target_indices = {} THEN Only("invalid_format")
       ELSE FetchAndPrint(<<>>, target_indices, exists, lines)

\* main, the "around TIME" branch
AroundBranch(args, exchanges_index, exists, lines) ==
    IF args.argc < 2 THEN Only("need_time")
    ELSE IF ~args.time.ok THEN Only("bad_time")
    ELSE LET target_indices == find_exchanges_around_time(exchanges_index,
                                                          args.time.minutes)
         IN IF target_indices = {} THEN Only("none_around")
            ELSE FetchAndPrint(<<>>, target_indices, exists, lines)

\* main, the "search KEYWORD" branch
SearchBranch(args, exchanges_index, exists, lines) ==
    IF args.argc < 2 THEN Only("need_term")
    ELSE LET target_indices == search_exchanges(exchanges_index, args.keyword)
         IN IF target_indices = {} THEN Only("none_matching")
            ELSE IF Cardinality(target_indices) > SEARCH_LIMIT
                 THEN FetchAndPrint(<<"many_matches">>,
                                    MostRecent(target_indices, SEARCH_LIMIT),
                                    exists, lines)
                 ELSE FetchAndPrint(<<>>, target_indices, exists, lines)

\* an unknown-command branch that leaves out print_usage()
UnknownBranchWithoutUsage(first_arg) == Only("unknown_command")

\* main, the branch of an unknown command: the command is named and
\* print_usage() prints the usage lines
UnknownBranch(first_arg) == Printed(<<"unknown_command", "usage">>, {}, <<>>)

\* fetch_exchanges.main: file is index.json, lines the transcript the index
\* names
fetch_main(given, file, exists, lines) ==
    LET args == IF given.argc = 0 THEN Args(1, LastArg(5), <<>>, NoTime) ELSE given
        index == load_index(file)
    IN IF index = NoData THEN Only("no_index")
       ELSE IF index.total_exchanges = 0 THEN Only("no_exchanges")
       ELSE LET first_arg == lower(args.command)
            IN IF startswith(first_arg, <<"l", "a", "s", "t">>)
               THEN LastBranch(first_arg, index.total_exchanges, exists, lines)
               ELSE IF first_arg = <<"a", "r", "o", "u", "n", "d">>
               THEN AroundBranch(args, index.exchanges, exists, lines)
               ELSE IF first_arg = <<"s", "e", "a", "r", "c", "h">>
               THEN SearchBranch(args, index.exchanges, exists, lines)
               ELSE UnknownBranch(first_arg)

\* show_index.format_search_results: the first 20 results are listed, and a
\* line counts the rest
format_search_results(results) ==
    IF results = <<>> THEN Only("none_matching")
    ELSE LET listed == SubSeq(results, 1, Min(Len(results), SEARCH_LISTED))
         IN Printed(<<"search_results">> \o
                        (IF Len(results) > SEARCH_LISTED THEN <<"more_matches">> ELSE <<>>),
                    {listed[k].idx : k \in 1..Len(listed)}, <<>>)

\* show_index.main run with --search keyword
show_index_search(file, keyword) ==
    LET index == load_index(file)
    IN IF index = NoData THEN Only("no_index")
       ELSE IF index.exchanges = <<>> THEN Only("no_exchanges")
       ELSE format_search_results(
                SelectSeq(index.exchanges,
                          LAMBDA ex : Contains(lower(ex.preview), lower(keyword))))

\* the session queried: n exchanges, those in matching ask "s", the others "x"
Matching(n, pattern) ==
    CASE pattern = "all" -> 1..n
      [] pattern = "none" -> {}
      [] pattern = "rest" -> 2..n
      [] pattern = "odd" -> {k \in 1..n : k % 2 = 1}
Patterns == {"all", "none", "rest", "odd"}
QueriedLines(n, pattern) ==
    [j \in 1..(2 * n) |->
        IF j % 2 = 1
        THEN UserLine(IF (j + 1) \div 2 \in Matching(n, pattern) THEN <<"s">> ELSE <<"x">>,
                      TS("iso", 1, 600 + (j + 1) \div 2))
        ELSE AssistantLine(<<"r">>, TS("iso", 1, 600 + j \div 2))]
QueriedIndex(st, n, pattern) ==
    IF st = "complete"
    THEN File("complete",
              IndexData("s1", PathOf("s1"),
                        full_index_of(all_exchanges_of(
                            parse_transcript_with_timestamps(TRUE, QueriedLines(n, pattern)))),
                        1))
    ELSE File(st, NoData)

QueryArgs ==
    {Args(0, <<>>, <<>>, NoTime),
     Args(1, LastArg(3), <<>>, NoTime),
     Args(1, <<"l", "a", "s", "t">>, <<>>, NoTime),
     Args(1, <<"l", "a", "s", "t", "x">>, <<>>, NoTime),
     Args(1, <<"L", "A", "S", "T", "2">>, <<>>, NoTime),
     Args(1, <<"l", "a", "s", "t", "0">>, <<>>, NoTime),
     Args(1, <<"s", "e", "a", "r", "c", "h">>, <<>>, NoTime),
     Args(2, <<"s", "e", "a", "r", "c", "h">>, <<"s">>, NoTime),
     Args(2, <<"s", "e", "a", "r", "c", "h">>, <<"S">>, NoTime),
     Args(2, <<"s", "e", "a", "r", "c", "h">>, <<"z">>, NoTime),
     Args(1, <<"a", "r", "o", "u", "n", "d">>, <<>>, NoTime),
     Args(2, <<"a", "r", "o", "u", "n", "d">>, <<>>, NoTime),
     Args(2, <<"a", "r", "o", "u", "n", "d">>, <<>>, [ok |-> TRUE, minutes |-> 604]),
     Args(1, <<"f", "o", "o">>, <<>>, NoTime),
     Args(2, <<"f", "i", "n", "d">>, <<"s">>, NoTime)}

InitQuery ==
    /\ QuietHook
    /\ input \in [args : QueryArgs, st : {"complete", "corrupt", "absent"},
                  n : 0..MaxEntries, pattern : Patterns, exists : BOOLEAN]
    /\ output = NoOutput

\* the query is run with fetch_exchanges.py
FetchMain ==
    /\ ~output.computed
    /\ output' = [computed |-> TRUE, program |-> "fetch",
                  value |-> fetch_main(input.args,
                                       QueriedIndex(input.st, input.n, input.pattern),
                                       input.exists,
                                       QueriedLines(input.n, input.pattern))]
    /\ UNCHANGED <<hookVars, input>>

\* the search is run with show_index.py --search
ShowIndexSearch ==
    /\ ~output.computed
    /\ input.args.argc = 2
    /\ lower(input.args.command) = <<"s", "e", "a", "r", "c", "h">>
    /\ output' = [computed |-> TRUE, program |-> "show",
                  value |-> show_index_search(
                                QueriedIndex(input.st, input.n, input.pattern),
                                input.args.keyword)]
    /\ UNCHANGED <<hookVars, input>>

NextQuery == FetchMain \/ ShowIndexSearch
SpecQuery == InitQuery /\ [][NextQuery]_vars

\* the index the query reads holds at least one exchange
IndexLoaded == input.st = "complete" /\ input.n >= 1
\* the first argument is "last" followed by something that is not a number
LastWithoutN ==
    /\ input.args.argc >= 1
    /\ startswith(lower(input.args.command), <<"l", "a", "s", "t">>)
    /\ ~int(SubSeq(lower(input.args.command), 5, Len(input.args.command))).ok
NoMatchMessages == {"none_matching", "none_around"}

\* C14: over a loaded index, a lastN query whose N is missing or not a
\* number prints the invalid-format message and nothing else: none of the
\* messages of a query without matches, and no exchange content
C14_InvalidLastN ==
    (output.computed /\ output.program = "fetch" /\ IndexLoaded /\ LastWithoutN)
        => /\ output.value.messages = <<"invalid_format">>
           /\ \A k \in 1..Len(output.value.messages) :
                 output.value.messages[k] \notin NoMatchMessages
           /\ output.value.rendered = <<>>
           /\ output.value.target_indices = {}

C14_Witness ==
    /\ output.computed /\ output.program = "fetch" /\ IndexLoaded /\ LastWithoutN
    /\ input.exists
    /\ input.args.command = <<"l", "a", "s", "t", "x">>
    /\ output.value.messages = <<"invalid_format">>

\* the indices of the exchanges whose preview holds the keyword searched
Matches ==
    search_exchanges(QueriedIndex(input.st, input.n, input.pattern).data.exchanges,
                     input.args.keyword)
SearchRun ==
    /\ output.computed
    /\ IndexLoaded
    /\ input.args.argc = 2
    /\ lower(input.args.command) = <<"s", "e", "a", "r", "c", "h">>
TruncationNotices == {"many_matches", "more_matches"}
Noticed == \E k \in 1..Len(output.value.messages) :
               output.value.messages[k] \in TruncationNotices

\* C19: a keyword search shows at most 10 exchanges; with more than 10
\* matches it keeps exactly the 10 of highest idx and prints a truncation
\* notice, with 10 or fewer it keeps them all and prints no notice
C19_SearchCap ==
    (SearchRun /\ Matches # {})
        => /\ Cardinality(output.value.target_indices) <= SEARCH_LIMIT
           /\ IF Cardinality(Matches) > SEARCH_LIMIT
              THEN /\ output.value.target_indices = MostRecent(Matches, SEARCH_LIMIT)
                   /\ Noticed
              ELSE /\ output.value.target_indices = Matches
                   /\ ~Noticed

\* ======================================================= show_index pages
\* seq[a:b] of Python, a and b being 0-based and possibly negative
PySlice(seq, a, b) ==
    LET lo == IF a < 0 THEN Max(a + Len(seq), 0) ELSE Min(a, Len(seq))
        hi == IF b < 0 THEN Max(b + Len(seq), 0) ELSE Min(b, Len(seq))
    IN [k \in 1..Max(0, hi - lo) |-> seq[lo + k]]

reversed(seq) == [k \in 1..Len(seq) |-> seq[Len(seq) + 1 - k]]

\* a format_page that takes its slice from the oldest exchange on
format_page_from_start(exchanges, page, total_exchanges) ==
    LET total_pages == (total_exchanges + PAGE_SIZE - 1) \div PAGE_SIZE
        page_slice == PySlice(exchanges, (page - 1) * PAGE_SIZE,
                              (page - 1) * PAGE_SIZE + PAGE_SIZE)
    IN IF exchanges = <<>> THEN [kind |-> "no_exchanges"]
       ELSE IF page_slice = <<>> THEN [kind |-> "page_empty", total_pages |-> total_pages]
       ELSE [kind |-> "page", page |-> page, total_pages |-> total_pages,
             total |-> total_exchanges,
             listed |-> [k \in 1..Len(page_slice) |-> page_slice[k].idx],
             newer |-> page > 1, older |-> page < total_pages]

\* show_index.format_page: the lines "#idx" of the page in the order
\* printed, and the navigation hints
format_page(exchanges, page, total_exchanges) ==
    LET total_pages == (total_exchanges + PAGE_SIZE - 1) \div PAGE_SIZE
        start_from_end == (page - 1) * PAGE_SIZE
        end_from_end == start_from_end + PAGE_SIZE
        page_slice == PySlice(reversed(exchanges), start_from_end, end_from_end)
    IN IF exchanges = <<>> THEN [kind |-> "no_exchanges"]
       ELSE IF page_slice = <<>> THEN [kind |-> "page_empty", total_pages |-> total_pages]
       ELSE [kind |-> "page", page |-> page, total_pages |-> total_pages,
             total |-> total_exchanges,
             listed |-> [k \in 1..Len(page_slice) |-> page_slice[k].idx],
             newer |-> page > 1, older |-> page < total_pages]

\* a find_page_for_time that counts the position from the oldest exchange
find_page_for_time_from_start(exchanges, target_minutes) ==
    IF exchanges = <<>> THEN 1
    ELSE (best_idx_of(exchanges, target_minutes) \div PAGE_SIZE) + 1

\* show_index.find_page_for_time
find_page_for_time(exchanges, target_minutes) ==
    IF exchanges = <<>> THEN 1
    ELSE LET best_idx == best_idx_of(exchanges, target_minutes)
             total == Len(exchanges)
             pos_from_end == total - 1 - best_idx
         IN (pos_from_end \div PAGE_SIZE) + 1

\* show_index.main without --search: page is --page, around the parse of
\* --around (given = FALSE when the option is absent)
show_index_page(file, page, around) ==
    LET index == load_index(file)
    IN IF index = NoData THEN [page |-> page, value |-> [kind |-> "no_index"]]
       ELSE IF index.exchanges = <<>>
            THEN [page |-> page, value |-> [kind |-> "no_exchanges"]]
       ELSE IF around.given /\ ~around.ok
            THEN [page |-> page, value |-> [kind |-> "bad_time"]]
       ELSE LET p == IF around.given
                     THEN find_page_for_time(index.exchanges, around.minutes)
                     ELSE page
            IN [page |-> p,
                value |-> format_page(index.exchanges, p, index.total_exchanges)]

\* the index paged: n exchanges, those at the positions of near at 10:00,
\* every seventh with a timestamp that does not parse, the others later
PagedStamp(k, near) ==
    IF k \in near THEN TS("iso", 1, 600)
    ELSE IF k % 7 = 0 THEN BadTS
    ELSE TS("iso", 1, 700 + k)
PagedExchanges(n, near) == [k \in 1..n |-> IndexEntry(k, <<"q">>, PagedStamp(k, near))]
PagedIndex(st, n, near) ==
    IF st = "complete"
    THEN File("complete", IndexData("s1", PathOf("s1"), PagedExchanges(n, near), 1))
    ELSE File(st, NoData)
NearSets == {{}, {1}, {20}, {21, 41}, {40}, {5, 25}}
NoAround == [given |-> FALSE, ok |-> FALSE, minutes |-> 0]
Arounds == {NoAround, [given |-> TRUE, ok |-> FALSE, minutes |-> 0],
            [given |-> TRUE, ok |-> TRUE, minutes |-> 605]}

InitPage ==
    /\ QuietHook
    /\ input \in [st : {"complete", "absent"}, n : 0..MaxPaged, near : NearSets,
                  page : -1..3, around : Arounds]
    /\ output = NoOutput

ShowIndexPage ==
    /\ ~output.computed
    /\ LET r == show_index_page(PagedIndex(input.st, input.n, input.near),
                                input.page, input.around)
       IN output' = [computed |-> TRUE, page |-> r.page, value |-> r.value]
    /\ UNCHANGED <<hookVars, input>>

NextPage == ShowIndexPage
SpecPage == InitPage /\ [][NextPage]_vars

\* the exchanges of the index paged, the number of its pages, and the idx
\* listed on page p
Paged == PagedExchanges(input.n, input.near)
TotalPages == (input.n + PAGE_SIZE - 1) \div PAGE_SIZE
ListedOn(p) ==
    LET r == format_page(Paged, p, input.n)
    IN IF r.kind = "page" THEN {r.listed[k] : k \in 1..Len(r.listed)} ELSE {}
\* the idx at position pos counted backward from the most recent (0)
FromEnd(pos) == Paged[input.n - pos].idx
PageRun == output.computed /\ input.st = "complete" /\ input.n >= 1

\* C21: a page p in 1..ceil(total/PAGE_SIZE) lists exactly the exchanges at
\* positions (p-1)*PAGE_SIZE .. p*PAGE_SIZE-1 counted backward from the most
\* recent one, most recent first, and every exchange is on exactly one page
C21_PagesFromTheEnd ==
    (PageRun /\ ~input.around.given /\ input.page \in 1..TotalPages) =>
        LET first == (input.page - 1) * PAGE_SIZE
            last == Min(input.page * PAGE_SIZE - 1, input.n - 1)
        IN /\ output.value.kind = "page"
           /\ output.value.listed = [k \in 1..(last - first + 1) |-> FromEnd(first + k - 1)]
           /\ \A k \in 1..input.n :
                 Cardinality({p \in 1..TotalPages : Paged[k].idx \in ListedOn(p)}) = 1

\* C21 witness: page 2 of 41 exchanges lists 21 down to 2
C21_Witness ==
    /\ PageRun /\ ~input.around.given
    /\ input.n = 41 /\ input.page = 2
    /\ Len(output.value.listed) = 20
    /\ output.value.listed[1] = 21 /\ output.value.listed[20] = 2

\* the positions whose timestamp parses, and the distance of one to the target
PagedParseable == {k \in 1..input.n : Paged[k].timestamp.kind = "iso"}
PagedDiff(k) == Abs(Paged[k].timestamp.minute - input.around.minutes)
\* the exchange nearest to the target, the first one in list order
Nearest ==
    CHOOSE k \in PagedParseable :
        \A j \in PagedParseable :
            PagedDiff(k) < PagedDiff(j) \/ (PagedDiff(k) = PagedDiff(j) /\ k <= j)

\* C22: for a time that parses, the page find_page_for_time gives is in
\* 1..total_pages and the page format_page lists for it holds the exchange
\* nearest to the target, the first of equally near ones; for an empty list
\* find_page_for_time gives 1
C22_TimeJump ==
    /\ find_page_for_time(<<>>, 605) = 1
    /\ (PageRun /\ input.around.given /\ input.around.ok /\ PagedParseable # {}) =>
          /\ output.page \in 1..TotalPages
          /\ output.value.kind = "page"
          /\ \E k \in 1..Len(output.value.listed) :
                output.value.listed[k] = Paged[Nearest].idx

\* C22 witness: of 41 exchanges, 21 and 41 are equally near; the first, 21,
\* is on page 2
C22_Witness ==
    /\ PageRun /\ input.around.given /\ input.around.ok
    /\ input.n = 41 /\ input.near = {21, 41}
    /\ output.page = 2
    /\ output.value.listed[1] = 21

\* ============================================================ truncation
\* texts whose characters tell their position, and texts of one letter
PosText(n) == [i \in 1..n |-> Digits[(i % 10) + 1]]
TruncatedLengths == (0..MaxText) \cup {MAX_CHARS_PER_MESSAGE, MAX_CHARS_PER_MESSAGE + 1}
Caps == (0..MaxText) \cup {MAX_CHARS_PER_MESSAGE}

InitTrunc ==
    /\ QuietHook
    /\ input \in [user_len : TruncatedLengths, assistant_len : TruncatedLengths, cap : Caps]
    /\ output = NoOutput

\* truncate_text is applied to a text and a cap
TruncateText ==
    /\ ~output.computed
    /\ output' = [computed |-> TRUE, op |-> "truncate_text",
                  value |-> truncate_text(PosText(input.user_len), input.cap)]
    /\ UNCHANGED <<hookVars, input>>

\* the hook builds the recent exchanges of a session of one exchange (the
\* first and the last pass of build_exchange_index)
BuildRecent ==
    /\ ~output.computed
    /\ input.cap = MAX_CHARS_PER_MESSAGE
    /\ output' = [computed |-> TRUE, op |-> "build_exchange_index",
                  value |-> recent_exchanges_of(all_exchanges_of(
                                <<Message("user", PosText(input.user_len), NoTS),
                                  Message("assistant", TextOfLength(input.assistant_len),
                                          NoTS)>>))]
    /\ UNCHANGED <<hookVars, input>>

NextTrunc == TruncateText \/ BuildRecent
SpecTrunc == InitTrunc /\ [][NextTrunc]_vars

\* r is text cut to cap: text itself when it is no longer than cap, else its
\* first cap characters followed by the marker
CutTo(r, text, cap) ==
    IF Len(text) <= cap THEN r = text
    ELSE /\ Len(r) = cap + Len(TruncationMarker)
         /\ SubSeq(r, 1, cap) = SubSeq(text, 1, cap)
         /\ SubSeq(r, cap + 1, Len(r)) = TruncationMarker

\* C23: truncate_text returns a text no longer than the cap unchanged and a
\* longer one as its first cap characters followed by the marker (length at
\* most cap + len(marker), marker present); the hook cuts the user text and
\* the assistant text of an exchange each on its own
C23_TruncationBound ==
    /\ (output.computed /\ output.op = "truncate_text") =>
          /\ CutTo(output.value, PosText(input.user_len), input.cap)
          /\ Len(output.value) <= Max(input.user_len, input.cap + Len(TruncationMarker))
    /\ (output.computed /\ output.op = "build_exchange_index") =>
          /\ Len(output.value) = 1
          /\ CutTo(output.value[1].user, PosText(input.user_len), MAX_CHARS_PER_MESSAGE)
          /\ CutTo(output.value[1].assistant, TextOfLength(input.assistant_len),
                   MAX_CHARS_PER_MESSAGE)

\* C23 witness: a user text of 1001 characters is cut and marked, the
\* assistant text of 1000 characters beside it is kept whole
C23_Witness ==
    /\ output.computed /\ output.op = "build_exchange_index"
    /\ input.user_len = MAX_CHARS_PER_MESSAGE + 1
    /\ input.assistant_len = MAX_CHARS_PER_MESSAGE
    /\ Len(output.value[1].user) = MAX_CHARS_PER_MESSAGE + Len(TruncationMarker)
    /\ output.value[1].assistant = TextOfLength(MAX_CHARS_PER_MESSAGE)

\* ------------------------------------------------- unknown query commands
\* the first argument is none of lastN, around, search
UnknownVerb ==
    /\ input.args.argc >= 1
    /\ ~startswith(lower(input.args.command), <<"l", "a", "s", "t">>)
    /\ lower(input.args.command) \notin {<<"a", "r", "o", "u", "n", "d">>,
                                         <<"s", "e", "a", "r", "c", "h">>}
UnknownVerbRun == output.computed /\ output.program = "fetch" /\ UnknownVerb
UsagePrinted == \E k \in 1..Len(output.value.messages) : output.value.messages[k] = "usage"

\* C24 as stated: an unknown command prints the usage message whatever the
\* state of the persisted index
C24_UsageWhateverTheIndex == UnknownVerbRun => UsagePrinted

\* C24 amended: an unknown command ends the run normally with nothing fetched
\* or rendered; over an index of at least one exchange it prints the
\* unknown-command line and the usage message, with index.json missing or
\* unreadable only the no-index message, with an index of no exchange only
\* the no-exchanges message
C24_UnknownVerb ==
    UnknownVerbRun =>
        /\ output.value.target_indices = {} /\ output.value.rendered = <<>>
        /\ output.value.messages =
              (IF input.st # "complete" THEN <<"no_index">>
               ELSE IF input.n = 0 THEN <<"no_exchanges">>
               ELSE <<"unknown_command", "usage">>)

C24_Witness ==
    /\ UnknownVerbRun /\ IndexLoaded
    /\ input.args.command = <<"f", "o", "o">>
    /\ UsagePrinted

\* ------------------------------------------------ the snapshot's counters
\* C25: once a run of the hook has written current.json, its message_count
\* is the number of user and assistant messages parsed from the transcript
\* the run read
C25_MessageCount ==
    \A h \in HookIds :
        (hook[h].pc \in {"respond", "exit"} /\ hook[h].wrote = 3) =>
            /\ files["current.json"].st = "complete"
            /\ files["current.json"].data.message_count = Len(MessagesOf(hook[h].lines))

\* ============================================ the three pairings compared
\* a transcript is read by the hook, by utils and by fetch_exchanges (asked
\* for every index)
PairTranscript ==
    /\ ~output.computed
    /\ output' =
         [computed |-> TRUE,
          hook |-> all_exchanges_of(parse_transcript_with_timestamps(TRUE, input)),
          utils |-> build_exchanges_from_messages(parse_transcript_messages(TRUE, input)),
          fetch |-> fetch_exchanges_from_transcript(TRUE, input, 1..Len(input))]
    /\ UNCHANGED <<hookVars, input>>

NextAgree == PairTranscript
SpecAgree == InitParse /\ [][NextAgree]_vars

\* C26: for every transcript the three implementations number the same
\* pairs alike: the exchange the hook indexes under an idx is the exchange
\* utils builds under that idx and the one fetch_exchanges returns for it
C26_PairingsAgree ==
    output.computed =>
        /\ output.utils = output.hook
        /\ Len(output.fetch) = Len(output.hook)
        /\ \A k \in 1..Len(output.hook) :
              /\ k <= Len(output.fetch)
              /\ output.fetch[k].idx = output.hook[k].idx
              /\ output.fetch[k].user = output.hook[k].user_text
              /\ output.fetch[k].assistant = output.hook[k].assistant_text

\* ================================================ a query on a stale index
StaleArgs ==
    {Args(1, LastArg(1), <<>>, NoTime),
     Args(1, LastArg(2), <<>>, NoTime),
     Args(2, <<"s", "e", "a", "r", "c", "h">>, <<"q">>, NoTime),
     Args(2, <<"a", "r", "o", "u", "n", "d">>, <<>>, [ok |-> TRUE, minutes |-> 600])}

\* the session whose transcript index.json names
IndexedSession ==
    IF files["index.json"].st = "complete"
    THEN SessionOfPath(files["index.json"].data.transcript_path)
    ELSE "s1"

\* fetch_exchanges.py is run between two invocations of the hook: it reads
\* index.json and the transcript as they are now
QueryNow(args) ==
    /\ ~output.computed
    /\ \A h \in HookIds : hook[h].pc = "idle"
    /\ output' = [computed |-> TRUE, args |-> args,
                  value |-> fetch_main(args, files["index.json"], TRUE,
                                       FileLines(IndexedSession))]
    /\ UNCHANGED <<hookVars, input>>

\* the system runs until a query is made
NextStale == (~output.computed /\ Next) \/ \E args \in StaleArgs : QueryNow(args)
SpecStale == Init /\ [][NextStale]_vars

\* the complete lines of what a run read (a record partly written then may
\* have been completed since)
ReadWhole(lines) ==
    IF lines # <<>> /\ lines[Len(lines)] = InvalidLine
    THEN SubSeq(lines, 1, Len(lines) - 1) ELSE lines
\* index.json holds what the last completed run of its session wrote, and
\* the transcript has been appended to since that run read it
StaleIndex ==
    /\ files["index.json"].st = "complete"
    /\ prevRead[IndexedSession] # NotRun
    /\ IsPrefix(ReadWhole(prevRead[IndexedSession]), FileLines(IndexedSession))
    /\ FileLines(IndexedSession) # prevRead[IndexedSession]
\* the exchanges of the transcript as the last completed run read it
IndexedExchanges == all_exchanges_of(MessagesOf(prevRead[IndexedSession]))
\* exchange e of the indexed transcript is rendered under its idx
RenderedAs(e) ==
    /\ \E k \in 1..Len(output.value.rendered) :
          output.value.rendered[k] = Item("user", e.idx, e.user_text, 0)
    /\ \E k \in 1..Len(output.value.rendered) :
          output.value.rendered[k] = Item("assistant", e.idx, e.assistant_text, 0)

\* C27: a query on an index older than the transcript selects indices the
\* index holds, each fetched from the transcript as the pair the index
\* recorded under it (same texts, same preview and timestamp), and lastN
\* selects the last N exchanges of the index
C27_StaleIndexQuery ==
    (output.computed /\ StaleIndex) =>
        LET data == files["index.json"].data
            total == data.total_exchanges
        IN /\ total = Len(IndexedExchanges)
           /\ \A i \in output.value.target_indices :
                 /\ i \in 1..total
                 /\ RenderedAs(IndexedExchanges[i])
                 /\ data.exchanges[i].idx = i
                 /\ data.exchanges[i].preview =
                        make_preview(IndexedExchanges[i].user_text, PREVIEW_LENGTH)
                 /\ data.exchanges[i].timestamp = IndexedExchanges[i].timestamp
           /\ \A n \in 1..2 :
                 (output.args.command = LastArg(n) /\ total >= 1) =>
                     output.value.target_indices = Max(1, total - n + 1)..total

\* C27 witness: the index of s1 holds one exchange, the transcript has since
\* gained a second one, and last2 fetches the first alone
C27_Witness ==
    /\ output.computed /\ StaleIndex
    /\ IndexedSession = "s1"
    /\ files["index.json"].data.total_exchanges = 1
    /\ Len(all_exchanges_of(MessagesOf(FileLines("s1")))) = 2
    /\ output.args.command = LastArg(2)
    /\ output.value.target_indices = {1}
    /\ output.value.messages = <<"fetched">>

\* ================================================= two hooks at one time
\* the hook of the earlier session s2 is started again (a prompt is sent in
\* its window) while the hook of s1 runs or between its runs
HookStepOld(h) ==
    \/ HookStart(h, "s2")
    \/ SaveFile(h)
    \/ \E prompt \in Prompts : Respond(h, prompt)
    \/ Exit(h)

NextOverlap == HostWrites \/ HookStep(1) \/ HookStepOld(2)
SpecOverlap == Init /\ [][NextOverlap]_vars

\* both invocations are running and each has written its three files
BothWrote == \A h \in HookIds : hook[h].pc \in {"respond", "exit"} /\ hook[h].wrote = 3

\* C28: once two overlapping invocations of the hook have both written their
\* files, index.json and current.json come from the same invocation: they
\* hold the same session_id, and message_count is twice total_exchanges
C28_FilesFromOneInvocation ==
    BothWrote =>
        /\ files["index.json"].st = "complete" /\ files["current.json"].st = "complete"
        /\ files["index.json"].data.session_id = files["current.json"].data.session_id
        /\ files["current.json"].data.message_count =
              2 * files["index.json"].data.total_exchanges

\* ================================================== the recent exchanges
\* the exchanges of the session: short texts, two texts over the limit, or
\* a long prompt with a short answer
KindLengths ==
    [short |-> <<1, 2>>,
     full |-> <<MAX_CHARS_PER_MESSAGE + 1, MAX_CHARS_PER_MESSAGE + 1>>,
     mixed |-> <<MAX_CHARS_PER_MESSAGE + 1, 1>>]
SessionKinds == UNION {[1..n -> DOMAIN KindLengths] : n \in 0..MaxRecent}
\* the messages of a session whose k-th exchange is of kind kinds[k]
MessagesOfKinds(kinds) ==
    [j \in 1..(2 * Len(kinds)) |->
        IF j % 2 = 1
        THEN Message("user", TextOfLength(KindLengths[kinds[(j + 1) \div 2]][1]),
                     TS("iso", 1, 600 + j))
        ELSE Message("assistant", TextOfLength(KindLengths[kinds[j \div 2]][2]),
                     TS("iso", 1, 600 + j))]

InitRecent == QuietHook /\ input \in SessionKinds /\ output = NoOutput

\* the hook pairs the messages and collects the recent exchanges
CollectRecent ==
    /\ ~output.computed
    /\ output' = [computed |-> TRUE,
                  value |-> recent_exchanges_of(all_exchanges_of(MessagesOfKinds(input)))]
    /\ UNCHANGED <<hookVars, input>>

NextRecent == CollectRecent
SpecRecent == InitRecent /\ [][NextRecent]_vars

RECURSIVE RecentChars(_)
RecentChars(recent) ==
    IF recent = <<>> THEN 0
    ELSE Len(Head(recent).user) + Len(Head(recent).assistant) + RecentChars(Tail(recent))

\* C29: the recent exchanges are the last m exchanges of the session for
\* some m <= 5, in ascending idx order, each with its two texts cut to the
\* per-message limit, and their texts add up to at most 8000 characters
C29_RecentIsBoundedSuffix ==
    output.computed =>
        LET all == all_exchanges_of(MessagesOfKinds(input))
            n == Len(all)
            m == Len(output.value)
        IN /\ m <= MAX_RECENT_EXCHANGES /\ m <= n
           /\ \A k \in 1..m :
                 /\ output.value[k].idx = n - m + k
                 /\ CutTo(output.value[k].user, all[n - m + k].user_text,
                          MAX_CHARS_PER_MESSAGE)
                 /\ CutTo(output.value[k].assistant, all[n - m + k].assistant_text,
                          MAX_CHARS_PER_MESSAGE)
           /\ RecentChars(output.value) <= MAX_TOTAL_CHARS

\* C29 witness: of six exchanges the oldest is short and the others have
\* two long texts; the last three fit, the fourth does not, and the short
\* one before it is left out too
C29_Witness ==
    /\ output.computed
    /\ input = <<"short", "full", "full", "full", "full", "full">>
    /\ Len(output.value) = 3
    /\ output.value[1].idx = 4 /\ output.value[3].idx = 6

\* ------------------------------------------ the marker of format_exchanges
\* C30: when format_exchanges stops at the size limit, the number in its
\* "more exchanges not shown" marker is the number of exchanges of the input
\* that were not rendered, and so is at least 1
C30_MarkerCountsTheRest ==
    output.computed =>
        \A k \in 1..Len(output.value) :
            output.value[k].kind = "marker" =>
                /\ output.value[k].more = Len(input) - Len(ItemsOfKind("user"))
                /\ output.value[k].more >= 1

====
